---- MODULE Spec2Model ----
(***************************************************************************)
(* A model of afptool-rs: the RockChip firmware container codec.           *)
(*   src/src/lib.rs     header layouts (UpdateHeader, UpdatePart)          *)
(*   src/src/pack.rs    rkcrc32, parse_partition_metadata, pack_rkaf,      *)
(*                      pack_rkfw                                          *)
(*   src/src/unpack.rs  unpack_file, unpack_rkafp, extract_file,           *)
(*                      unpack_rkfw                                        *)
(*                                                                         *)
(* Bytes are the integers 0..255, a byte string is a sequence of bytes and *)
(* a text is a sequence of ASCII codes.  TLC's integers are 32-bit signed, *)
(* so a u32 that may exceed 2^31-1 (the checksum accumulator) is kept as   *)
(* a word: its four bytes, most significant first.  Sizes and offsets,     *)
(* which stay far below 2^31 here, are plain integers.                     *)
(***************************************************************************)
EXTENDS Integers, Sequences, FiniteSets, TLC

VARIABLES
  dirs,     \* the directories: the text files and the files under each
  imgs,     \* the container files, by name
  pk,       \* pack_rkaf: its arguments, its locals and its position
  un,       \* unpack_file: its arguments, its locals and its position
  result,   \* what the last finished call returned
  env,      \* the caller: its command-line arguments and the calls made
  fn_in,    \* the arguments of the pure function under check
  fn_out    \* its results (done is FALSE before it has been applied)

vars == << dirs, imgs, pk, un, result, env, fn_in, fn_out >>

-----------------------------------------------------------------------------
(* Byte strings and texts                                                  *)

Byte == 0..255

Zeros(n) == [i \in 1..n |-> 0]

\* s[lo..hi] of a Rust slice (0-based, half open)
Slice(s, lo, hi) == [i \in 1..(hi - lo) |-> s[lo + i]]

Min(a, b) == IF a < b THEN a ELSE b

\* the elements of a set of integers in increasing order
Ascending(S) ==
  [k \in 1..Cardinality(S) |-> CHOOSE p \in S : Cardinality({q \in S : q < p}) = k - 1]

\* str::starts_with
starts_with(s, p) == Len(s) >= Len(p) /\ SubSeq(s, 1, Len(p)) = p

\* char::is_whitespace on ASCII: tab, line feed, vertical tab, form feed,
\* carriage return, space
Whitespace == {9, 10, 11, 12, 13, 32}

\* str::trim
trim(s) ==
  LET keep == {i \in 1..Len(s) : s[i] \notin Whitespace}
  IN  IF keep = {} THEN << >>
      ELSE SubSeq(s, CHOOSE i \in keep : \A j \in keep : i <= j,
                     CHOOSE i \in keep : \A j \in keep : j <= i)

\* str::split on one of the characters of seps: the fields between them,
\* empty ones included
split(s, seps) ==
  LET at == Ascending({i \in 1..Len(s) : s[i] \in seps})
      n  == Len(at)
  IN  [k \in 1..(n + 1) |->
         SubSeq(s, IF k = 1 THEN 1 ELSE at[k - 1] + 1,
                   IF k = n + 1 THEN Len(s) ELSE at[k] - 1)]

\* str::split_whitespace: the non-empty fields between runs of whitespace
split_whitespace(s) == SelectSeq(split(s, Whitespace), LAMBDA f : f # << >>)

\* str::trim_start_matches: the pattern is removed as often as it leads
RECURSIVE trim_start_matches(_, _)
trim_start_matches(s, p) ==
  IF p # << >> /\ starts_with(s, p)
  THEN trim_start_matches(SubSeq(s, Len(p) + 1, Len(s)), p)
  ELSE s

\* the value of a hexadecimal digit, -1 for any other character
HexDigitValue(c) ==
  IF c \in 48..57 THEN c - 48
  ELSE IF c \in 97..102 THEN c - 87
  ELSE IF c \in 65..70 THEN c - 55
  ELSE -1

RECURSIVE HexValue(_, _)
HexValue(s, n) == IF n = 0 THEN 0 ELSE 16 * HexValue(s, n - 1) + HexDigitValue(s[n])

\* u32::from_str_radix(s, 16): an optional + sign, then one or more
\* hexadecimal digits whose value fits 32 bits.  The digits after the
\* leading zeros number at most 8; values stay below 2^31 in this model.
from_str_radix16(s) ==
  LET digits == IF s # << >> /\ s[1] = 43 THEN Tail(s) ELSE s
      sig    == trim_start_matches(digits, <<48>>)
  IN  IF digits = << >> \/ \E i \in 1..Len(digits) : HexDigitValue(digits[i]) < 0
        THEN [ok |-> FALSE, v |-> 0]
      ELSE IF Len(sig) > 8 \/ (Len(sig) = 8 /\ HexDigitValue(sig[1]) >= 8)
        THEN [ok |-> FALSE, v |-> 0]
      ELSE [ok |-> TRUE, v |-> HexValue(sig, Len(sig))]

HexDigit(d) == IF d < 10 THEN 48 + d ELSE 87 + d

\* format!("{:#010x}", v): 0x and eight lowercase digits, zero padded
fmt_hex010(v) ==
  << 48, 120 >> \o [k \in 1..8 |-> HexDigit((v \div (16 ^ (8 - k))) % 16)]

\* CStr::from_bytes_until_nul(buf): the bytes before the first zero byte;
\* an error when the buffer holds none
from_bytes_until_nul(buf) ==
  LET nul == {i \in 1..Len(buf) : buf[i] = 0}
  IN  IF nul = {} THEN [ok |-> FALSE, s |-> << >>]
      ELSE [ok |-> TRUE,
            s  |-> SubSeq(buf, 1, (CHOOSE i \in nul : \A j \in nul : i <= j) - 1)]

-----------------------------------------------------------------------------
(* The checksum engine: pack.rs, RKCRC32_TABLE and rkcrc32                 *)

\* Each entry is a word: 0x04c10db7 is <<4, 193, 13, 183>>.
RKCRC32_TABLE ==
  <<
    <<0, 0, 0, 0>>, <<4, 193, 13, 183>>, <<9, 130, 27, 110>>, <<13, 67, 22, 217>>,
    <<19, 4, 54, 220>>, <<23, 197, 59, 107>>, <<26, 134, 45, 178>>, <<30, 71, 32, 5>>,
    <<38, 8, 109, 184>>, <<34, 201, 96, 15>>, <<47, 138, 118, 214>>, <<43, 75, 123, 97>>,
    <<53, 12, 91, 100>>, <<49, 205, 86, 211>>, <<60, 142, 64, 10>>, <<56, 79, 77, 189>>,
    <<76, 16, 219, 112>>, <<72, 209, 214, 199>>, <<69, 146, 192, 30>>, <<65, 83, 205, 169>>,
    <<95, 20, 237, 172>>, <<91, 213, 224, 27>>, <<86, 150, 246, 194>>, <<82, 87, 251, 117>>,
    <<106, 24, 182, 200>>, <<110, 217, 187, 127>>, <<99, 154, 173, 166>>, <<103, 91, 160, 17>>,
    <<121, 28, 128, 20>>, <<125, 221, 141, 163>>, <<112, 158, 155, 122>>, <<116, 95, 150, 205>>,
    <<152, 33, 182, 224>>, <<156, 224, 187, 87>>, <<145, 163, 173, 142>>, <<149, 98, 160, 57>>,
    <<139, 37, 128, 60>>, <<143, 228, 141, 139>>, <<130, 167, 155, 82>>, <<134, 102, 150, 229>>,
    <<190, 41, 219, 88>>, <<186, 232, 214, 239>>, <<183, 171, 192, 54>>, <<179, 106, 205, 129>>,
    <<173, 45, 237, 132>>, <<169, 236, 224, 51>>, <<164, 175, 246, 234>>, <<160, 110, 251, 93>>,
    <<212, 49, 109, 144>>, <<208, 240, 96, 39>>, <<221, 179, 118, 254>>, <<217, 114, 123, 73>>,
    <<199, 53, 91, 76>>, <<195, 244, 86, 251>>, <<206, 183, 64, 34>>, <<202, 118, 77, 149>>,
    <<242, 57, 0, 40>>, <<246, 248, 13, 159>>, <<251, 187, 27, 70>>, <<255, 122, 22, 241>>,
    <<225, 61, 54, 244>>, <<229, 252, 59, 67>>, <<232, 191, 45, 154>>, <<236, 126, 32, 45>>,
    <<52, 130, 96, 119>>, <<48, 67, 109, 192>>, <<61, 0, 123, 25>>, <<57, 193, 118, 174>>,
    <<39, 134, 86, 171>>, <<35, 71, 91, 28>>, <<46, 4, 77, 197>>, <<42, 197, 64, 114>>,
    <<18, 138, 13, 207>>, <<22, 75, 0, 120>>, <<27, 8, 22, 161>>, <<31, 201, 27, 22>>,
    <<1, 142, 59, 19>>, <<5, 79, 54, 164>>, <<8, 12, 32, 125>>, <<12, 205, 45, 202>>,
    <<120, 146, 187, 7>>, <<124, 83, 182, 176>>, <<113, 16, 160, 105>>, <<117, 209, 173, 222>>,
    <<107, 150, 141, 219>>, <<111, 87, 128, 108>>, <<98, 20, 150, 181>>, <<102, 213, 155, 2>>,
    <<94, 154, 214, 191>>, <<90, 91, 219, 8>>, <<87, 24, 205, 209>>, <<83, 217, 192, 102>>,
    <<77, 158, 224, 99>>, <<73, 95, 237, 212>>, <<68, 28, 251, 13>>, <<64, 221, 246, 186>>,
    <<172, 163, 214, 151>>, <<168, 98, 219, 32>>, <<165, 33, 205, 249>>, <<161, 224, 192, 78>>,
    <<191, 167, 224, 75>>, <<187, 102, 237, 252>>, <<182, 37, 251, 37>>, <<178, 228, 246, 146>>,
    <<138, 171, 187, 47>>, <<142, 106, 182, 152>>, <<131, 41, 160, 65>>, <<135, 232, 173, 246>>,
    <<153, 175, 141, 243>>, <<157, 110, 128, 68>>, <<144, 45, 150, 157>>, <<148, 236, 155, 42>>,
    <<224, 179, 13, 231>>, <<228, 114, 0, 80>>, <<233, 49, 22, 137>>, <<237, 240, 27, 62>>,
    <<243, 183, 59, 59>>, <<247, 118, 54, 140>>, <<250, 53, 32, 85>>, <<254, 244, 45, 226>>,
    <<198, 187, 96, 95>>, <<194, 122, 109, 232>>, <<207, 57, 123, 49>>, <<203, 248, 118, 134>>,
    <<213, 191, 86, 131>>, <<209, 126, 91, 52>>, <<220, 61, 77, 237>>, <<216, 252, 64, 90>>,
    <<105, 4, 192, 238>>, <<109, 197, 205, 89>>, <<96, 134, 219, 128>>, <<100, 71, 214, 55>>,
    <<122, 0, 246, 50>>, <<126, 193, 251, 133>>, <<115, 130, 237, 92>>, <<119, 67, 224, 235>>,
    <<79, 12, 173, 86>>, <<75, 205, 160, 225>>, <<70, 142, 182, 56>>, <<66, 79, 187, 143>>,
    <<92, 8, 155, 138>>, <<88, 201, 150, 61>>, <<85, 138, 128, 228>>, <<81, 75, 141, 83>>,
    <<37, 20, 27, 158>>, <<33, 213, 22, 41>>, <<44, 150, 0, 240>>, <<40, 87, 13, 71>>,
    <<54, 16, 45, 66>>, <<50, 209, 32, 245>>, <<63, 146, 54, 44>>, <<59, 83, 59, 155>>,
    <<3, 28, 118, 38>>, <<7, 221, 123, 145>>, <<10, 158, 109, 72>>, <<14, 95, 96, 255>>,
    <<16, 24, 64, 250>>, <<20, 217, 77, 77>>, <<25, 154, 91, 148>>, <<29, 91, 86, 35>>,
    <<241, 37, 118, 14>>, <<245, 228, 123, 185>>, <<248, 167, 109, 96>>, <<252, 102, 96, 215>>,
    <<226, 33, 64, 210>>, <<230, 224, 77, 101>>, <<235, 163, 91, 188>>, <<239, 98, 86, 11>>,
    <<215, 45, 27, 182>>, <<211, 236, 22, 1>>, <<222, 175, 0, 216>>, <<218, 110, 13, 111>>,
    <<196, 41, 45, 106>>, <<192, 232, 32, 221>>, <<205, 171, 54, 4>>, <<201, 106, 59, 179>>,
    <<189, 53, 173, 126>>, <<185, 244, 160, 201>>, <<180, 183, 182, 16>>, <<176, 118, 187, 167>>,
    <<174, 49, 155, 162>>, <<170, 240, 150, 21>>, <<167, 179, 128, 204>>, <<163, 114, 141, 123>>,
    <<155, 61, 192, 198>>, <<159, 252, 205, 113>>, <<146, 191, 219, 168>>, <<150, 126, 214, 31>>,
    <<136, 57, 246, 26>>, <<140, 248, 251, 173>>, <<129, 187, 237, 116>>, <<133, 122, 224, 195>>,
    <<93, 134, 160, 153>>, <<89, 71, 173, 46>>, <<84, 4, 187, 247>>, <<80, 197, 182, 64>>,
    <<78, 130, 150, 69>>, <<74, 67, 155, 242>>, <<71, 0, 141, 43>>, <<67, 193, 128, 156>>,
    <<123, 142, 205, 33>>, <<127, 79, 192, 150>>, <<114, 12, 214, 79>>, <<118, 205, 219, 248>>,
    <<104, 138, 251, 253>>, <<108, 75, 246, 74>>, <<97, 8, 224, 147>>, <<101, 201, 237, 36>>,
    <<17, 150, 123, 233>>, <<21, 87, 118, 94>>, <<24, 20, 96, 135>>, <<28, 213, 109, 48>>,
    <<2, 146, 77, 53>>, <<6, 83, 64, 130>>, <<11, 16, 86, 91>>, <<15, 209, 91, 236>>,
    <<55, 158, 22, 81>>, <<51, 95, 27, 230>>, <<62, 28, 13, 63>>, <<58, 221, 0, 136>>,
    <<36, 154, 32, 141>>, <<32, 91, 45, 58>>, <<45, 24, 59, 227>>, <<41, 217, 54, 84>>,
    <<197, 167, 22, 121>>, <<193, 102, 27, 206>>, <<204, 37, 13, 23>>, <<200, 228, 0, 160>>,
    <<214, 163, 32, 165>>, <<210, 98, 45, 18>>, <<223, 33, 59, 203>>, <<219, 224, 54, 124>>,
    <<227, 175, 123, 193>>, <<231, 110, 118, 118>>, <<234, 45, 96, 175>>, <<238, 236, 109, 24>>,
    <<240, 171, 77, 29>>, <<244, 106, 64, 170>>, <<249, 41, 86, 115>>, <<253, 232, 91, 196>>,
    <<137, 183, 205, 9>>, <<141, 118, 192, 190>>, <<128, 53, 214, 103>>, <<132, 244, 219, 208>>,
    <<154, 179, 251, 213>>, <<158, 114, 246, 98>>, <<147, 49, 224, 187>>, <<151, 240, 237, 12>>,
    <<175, 191, 160, 177>>, <<171, 126, 173, 6>>, <<166, 61, 187, 223>>, <<162, 252, 182, 104>>,
    <<188, 187, 150, 109>>, <<184, 122, 155, 218>>, <<181, 57, 141, 3>>, <<177, 248, 128, 180>>
  >>

RECURSIVE XorBits(_, _)
XorBits(a, b) ==
  IF a = 0 THEN b
  ELSE IF b = 0 THEN a
  ELSE ((a + b) % 2) + 2 * XorBits(a \div 2, b \div 2)

\* the ^ of two bytes, tabulated once
Xor8 == [a \in Byte |-> [b \in Byte |-> XorBits(a, b)]]

\* One iteration of the loop of rkcrc32 (pack.rs:85-86) on the accumulator
\* crc = <<w1, w2, w3, w4>> (w1 the top byte):
\*   index = ((crc >> 24) ^ byte) & 0xFF;  crc = (crc << 8) ^ TABLE[index]
\* crc << 8 drops w1 and is <<w2, w3, w4, 0>>.
rkcrc32_step(crc, byte) ==
  LET index == Xor8[crc[1]][byte] % 256
      t     == RKCRC32_TABLE[index + 1]
  IN  << Xor8[crc[2]][t[1]], Xor8[crc[3]][t[2]], Xor8[crc[4]][t[3]], t[4] >>

\* The loop "for &byte in data" over data[lo..hi], bytes taken in order.  The
\* range is walked in two halves, the first before the second, which keeps the
\* evaluation shallow on inputs of several thousand bytes.
RECURSIVE rkcrc32_range(_, _, _, _)
rkcrc32_range(crc, data, lo, hi) ==
  IF lo > hi THEN crc
  ELSE IF lo = hi THEN rkcrc32_step(crc, data[lo])
  ELSE LET mid   == (lo + hi) \div 2
           first == rkcrc32_range(crc, data, lo, mid)
       IN  IF Len(first) = 4 THEN rkcrc32_range(first, data, mid + 1, hi)
           ELSE first

\* A plausible slip: the accumulator argument is ignored and the fold starts
\* from zero.
rkcrc32_ignoring_seed(crc, data) == rkcrc32_range(<<0, 0, 0, 0>>, data, 1, Len(data))

rkcrc32(crc, data) == rkcrc32_range(crc, data, 1, Len(data))

\* u32::to_le_bytes of a word: least significant byte first
word_to_le_bytes(w) == << w[4], w[3], w[2], w[1] >>

\* u32::to_le_bytes of a value below 2^31
to_le_bytes(v) ==
  << v % 256, (v \div 256) % 256, (v \div 65536) % 256, (v \div 16777216) % 256 >>

\* u32::from_le_bytes; the top byte is below 128 for every value of this model
from_le_bytes(b) == b[1] + 256 * b[2] + 65536 * b[3] + 16777216 * b[4]

-----------------------------------------------------------------------------
(* md5::compute, which pack_rkfw calls (pack.rs:232): the MD5 digest of    *)
(* RFC 1321.  A word is four bytes, least significant first.               *)

\* bitwise and, or and complement of bytes
And8(a, b) == (a + b - Xor8[a][b]) \div 2
Or8(a, b) == (a + b + Xor8[a][b]) \div 2
Not8(a) == 255 - a

\* the shift of each of the 64 steps
MD5_S ==
  <<
     7, 12, 17, 22, 7, 12, 17, 22, 7, 12, 17, 22, 7, 12, 17, 22,
     5, 9, 14, 20, 5, 9, 14, 20, 5, 9, 14, 20, 5, 9, 14, 20,
     4, 11, 16, 23, 4, 11, 16, 23, 4, 11, 16, 23, 4, 11, 16, 23,
     6, 10, 15, 21, 6, 10, 15, 21, 6, 10, 15, 21, 6, 10, 15, 21 >>

\* the additive constant of each step: floor(2^32 * abs(sin(i + 1)))
MD5_K ==
  <<
     <<120, 164, 106, 215>>, <<86, 183, 199, 232>>, <<219, 112, 32, 36>>, <<238, 206, 189, 193>>,
     <<175, 15, 124, 245>>, <<42, 198, 135, 71>>, <<19, 70, 48, 168>>, <<1, 149, 70, 253>>,
     <<216, 152, 128, 105>>, <<175, 247, 68, 139>>, <<177, 91, 255, 255>>, <<190, 215, 92, 137>>,
     <<34, 17, 144, 107>>, <<147, 113, 152, 253>>, <<142, 67, 121, 166>>, <<33, 8, 180, 73>>,
     <<98, 37, 30, 246>>, <<64, 179, 64, 192>>, <<81, 90, 94, 38>>, <<170, 199, 182, 233>>,
     <<93, 16, 47, 214>>, <<83, 20, 68, 2>>, <<129, 230, 161, 216>>, <<200, 251, 211, 231>>,
     <<230, 205, 225, 33>>, <<214, 7, 55, 195>>, <<135, 13, 213, 244>>, <<237, 20, 90, 69>>,
     <<5, 233, 227, 169>>, <<248, 163, 239, 252>>, <<217, 2, 111, 103>>, <<138, 76, 42, 141>>,
     <<66, 57, 250, 255>>, <<129, 246, 113, 135>>, <<34, 97, 157, 109>>, <<12, 56, 229, 253>>,
     <<68, 234, 190, 164>>, <<169, 207, 222, 75>>, <<96, 75, 187, 246>>, <<112, 188, 191, 190>>,
     <<198, 126, 155, 40>>, <<250, 39, 161, 234>>, <<133, 48, 239, 212>>, <<5, 29, 136, 4>>,
     <<57, 208, 212, 217>>, <<229, 153, 219, 230>>, <<248, 124, 162, 31>>, <<101, 86, 172, 196>>,
     <<68, 34, 41, 244>>, <<151, 255, 42, 67>>, <<167, 35, 148, 171>>, <<57, 160, 147, 252>>,
     <<195, 89, 91, 101>>, <<146, 204, 12, 143>>, <<125, 244, 239, 255>>, <<209, 93, 132, 133>>,
     <<79, 126, 168, 111>>, <<224, 230, 44, 254>>, <<20, 67, 1, 163>>, <<161, 17, 8, 78>>,
     <<130, 126, 83, 247>>, <<53, 242, 58, 189>>, <<187, 210, 215, 42>>, <<145, 211, 134, 235>> >>

\* the initial state A, B, C, D
MD5_INIT ==
  << <<1, 35, 69, 103>>, <<137, 171, 205, 239>>, <<254, 220, 186, 152>>, <<118, 84, 50, 16>> >>

\* addition modulo 2^32
md5_add(x, y) ==
  LET lo == x[1] + 256 * x[2] + y[1] + 256 * y[2]
      hi == x[3] + 256 * x[4] + y[3] + 256 * y[4] + (lo \div 65536)
  IN  << lo % 256, (lo \div 256) % 256, hi % 256, (hi \div 256) % 256 >>

\* rotation to the left by s bits, 0 < s < 32
md5_rotl(x, s) ==
  LET q == s \div 8
      r == s % 8
      w == << x[((0 - q) % 4) + 1], x[((1 - q) % 4) + 1],
              x[((2 - q) % 4) + 1], x[((3 - q) % 4) + 1] >>
      sh(own, below) == ((own * (2 ^ r)) % 256) + (below \div (2 ^ (8 - r)))
  IN  << sh(w[1], w[4]), sh(w[2], w[1]), sh(w[3], w[2]), sh(w[4], w[3]) >>

\* the round function of step i on one byte of B, C, D
md5_f8(i, b, c, d) ==
  IF i < 16 THEN Or8(And8(b, c), And8(Not8(b), d))
  ELSE IF i < 32 THEN Or8(And8(d, b), And8(Not8(d), c))
  ELSE IF i < 48 THEN Xor8[Xor8[b][c]][d]
  ELSE Xor8[c][Or8(b, Not8(d))]

md5_f(i, b, c, d) ==
  << md5_f8(i, b[1], c[1], d[1]), md5_f8(i, b[2], c[2], d[2]),
     md5_f8(i, b[3], c[3], d[3]), md5_f8(i, b[4], c[4], d[4]) >>

\* the word of the block step i takes
md5_g(i) ==
  IF i < 16 THEN i
  ELSE IF i < 32 THEN (5 * i + 1) % 16
  ELSE IF i < 48 THEN (3 * i + 5) % 16
  ELSE (7 * i) % 16

\* step i, 0 <= i < 64, on the state st = <<A, B, C, D>> and the block's
\* sixteen words m
md5_step(st, m, i) ==
  LET t == md5_add(md5_add(md5_add(st[1], md5_f(i, st[2], st[3], st[4])), MD5_K[i + 1]),
                   m[md5_g(i) + 1])
  IN  << st[4], md5_add(st[2], md5_rotl(t, MD5_S[i + 1])), st[2], st[3] >>

\* steps lo..hi in order, by halves
RECURSIVE md5_steps(_, _, _, _)
md5_steps(st, m, lo, hi) ==
  IF lo = hi THEN md5_step(st, m, lo)
  ELSE LET mid   == (lo + hi) \div 2
           first == md5_steps(st, m, lo, mid)
       IN  IF Len(first) = 4 THEN md5_steps(first, m, mid + 1, hi) ELSE first

\* one block of 64 bytes: the 64 steps, then the state is added to
md5_block(st, block) ==
  LET m == << SubSeq(block, 1, 4), SubSeq(block, 5, 8), SubSeq(block, 9, 12),
              SubSeq(block, 13, 16), SubSeq(block, 17, 20), SubSeq(block, 21, 24),
              SubSeq(block, 25, 28), SubSeq(block, 29, 32), SubSeq(block, 33, 36),
              SubSeq(block, 37, 40), SubSeq(block, 41, 44), SubSeq(block, 45, 48),
              SubSeq(block, 49, 52), SubSeq(block, 53, 56), SubSeq(block, 57, 60),
              SubSeq(block, 61, 64) >>
      r == md5_steps(st, m, 0, 63)
  IN  << md5_add(st[1], r[1]), md5_add(st[2], r[2]),
         md5_add(st[3], r[3]), md5_add(st[4], r[4]) >>

\* the message, a 1 bit, zeros up to 56 modulo 64, and the length in bits as
\* 64 bits, least significant byte first
md5_pad(data) ==
  data \o <<128>> \o Zeros((55 - Len(data)) % 64) \o to_le_bytes(8 * Len(data)) \o Zeros(4)

\* the first n blocks of the padded message
RECURSIVE md5_blocks(_, _)
md5_blocks(padded, n) ==
  IF n = 0 THEN MD5_INIT
  ELSE LET before == md5_blocks(padded, n - 1)
       IN  IF Len(before) = 4
             THEN md5_block(before, SubSeq(padded, 64 * n - 63, 64 * n))
             ELSE before

\* md5::compute(data): the 16 bytes of the digest
md5_compute(data) ==
  LET padded == md5_pad(data)
      st     == md5_blocks(padded, Len(padded) \div 64)
  IN  st[1] \o st[2] \o st[3] \o st[4]

-----------------------------------------------------------------------------
(* The binary layout: lib.rs                                               *)

MAX_PARTS == 16
MAX_NAME_LEN == 32
MAX_FULL_PATH_LEN == 60
MAX_MODEL_LEN == 34
MAX_ID_LEN == 30
MAX_MANUFACTURER_LEN == 56
RESERVED_LEN == 116

RKAF_SIGNATURE == << 82, 75, 65, 70 >>   \* b"RKAF"
RKFW_SIGNATURE == << 82, 75, 70, 87 >>   \* b"RKFW"
RKAFP_MAGIC == << 82, 75, 65, 70 >>      \* "RKAF"

\* size_of::<UpdatePart>() of the packed struct: 112
UpdatePartSize == MAX_NAME_LEN + MAX_FULL_PATH_LEN + 5 * 4

\* offset of parts in the packed UpdateHeader: 140
PartsOffset == 4 + 4 + MAX_MODEL_LEN + MAX_ID_LEN + MAX_MANUFACTURER_LEN + 3 * 4

\* size_of::<UpdateHeader>() of the packed struct: 2048
UpdateHeaderSize == PartsOffset + MAX_PARTS * UpdatePartSize + RESERVED_LEN

\* UpdatePart::default()
UpdatePartDefault ==
  [ name            |-> Zeros(MAX_NAME_LEN),
    full_path       |-> Zeros(MAX_FULL_PATH_LEN),
    flash_size      |-> 0,
    part_offset     |-> 0,
    flash_offset    |-> 0,
    padded_size     |-> 0,
    part_byte_count |-> 0 ]

\* UpdateHeader::default()
UpdateHeaderDefault ==
  [ magic        |-> Zeros(4),
    length       |-> 0,
    model        |-> Zeros(MAX_MODEL_LEN),
    id           |-> Zeros(MAX_ID_LEN),
    manufacturer |-> Zeros(MAX_MANUFACTURER_LEN),
    unknown1     |-> 0,
    version      |-> 0,
    num_parts    |-> 0,
    parts        |-> [k \in 1..MAX_PARTS |-> UpdatePartDefault],
    reserved     |-> Zeros(RESERVED_LEN) ]

\* the bytes of one UpdatePart, fields in declaration order (repr(C, packed))
UpdatePartBytes(p) ==
  p.name \o p.full_path \o to_le_bytes(p.flash_size) \o to_le_bytes(p.part_offset)
    \o to_le_bytes(p.flash_offset) \o to_le_bytes(p.padded_size)
    \o to_le_bytes(p.part_byte_count)

\* UpdateHeader::to_bytes: the struct's bytes, fields in declaration order
UpdateHeader_to_bytes(h) ==
  LET pb == [k \in 1..MAX_PARTS |-> UpdatePartBytes(h.parts[k])]
  IN  h.magic \o to_le_bytes(h.length) \o h.model \o h.id \o h.manufacturer
        \o to_le_bytes(h.unknown1) \o to_le_bytes(h.version) \o to_le_bytes(h.num_parts)
        \o [i \in 1..(MAX_PARTS * UpdatePartSize) |->
              pb[((i - 1) \div UpdatePartSize) + 1][((i - 1) % UpdatePartSize) + 1]]
        \o h.reserved

\* one UpdatePart read from the bytes at offset o
UpdatePartAt(b, o) ==
  LET u32(at) == from_le_bytes(Slice(b, o + at, o + at + 4))
  IN  [ name            |-> Slice(b, o, o + MAX_NAME_LEN),
        full_path       |-> Slice(b, o + MAX_NAME_LEN, o + MAX_NAME_LEN + MAX_FULL_PATH_LEN),
        flash_size      |-> u32(MAX_NAME_LEN + MAX_FULL_PATH_LEN),
        part_offset     |-> u32(MAX_NAME_LEN + MAX_FULL_PATH_LEN + 4),
        flash_offset    |-> u32(MAX_NAME_LEN + MAX_FULL_PATH_LEN + 8),
        padded_size     |-> u32(MAX_NAME_LEN + MAX_FULL_PATH_LEN + 12),
        part_byte_count |-> u32(MAX_NAME_LEN + MAX_FULL_PATH_LEN + 16) ]

\* UpdateHeader::from_bytes: the struct overlaid on UpdateHeaderSize bytes
UpdateHeader_from_bytes(b) ==
  LET model_at == 8
      id_at    == model_at + MAX_MODEL_LEN
      manu_at  == id_at + MAX_ID_LEN
      tail_at  == manu_at + MAX_MANUFACTURER_LEN
  IN  [ magic        |-> Slice(b, 0, 4),
        length       |-> from_le_bytes(Slice(b, 4, 8)),
        model        |-> Slice(b, model_at, id_at),
        id           |-> Slice(b, id_at, manu_at),
        manufacturer |-> Slice(b, manu_at, tail_at),
        unknown1     |-> from_le_bytes(Slice(b, tail_at, tail_at + 4)),
        version      |-> from_le_bytes(Slice(b, tail_at + 4, tail_at + 8)),
        num_parts    |-> from_le_bytes(Slice(b, tail_at + 8, tail_at + 12)),
        parts        |-> [k \in 1..MAX_PARTS |->
                            UpdatePartAt(b, PartsOffset + (k - 1) * UpdatePartSize)],
        reserved     |-> Slice(b, PartsOffset + MAX_PARTS * UpdatePartSize, UpdateHeaderSize) ]

-----------------------------------------------------------------------------
(* Files.  A directory holds the three text files the tool reads or writes *)
(* by fixed name, each a sequence of lines, its subdirectories, and the    *)
(* files under it by relative path.                                        *)

NoText == [exists |-> FALSE, lines |-> << >>]

TextOf(ls) == [exists |-> TRUE, lines |-> ls]

NoFile == [exists |-> FALSE, data |-> << >>]

FileOf(bytes) == [exists |-> TRUE, data |-> bytes]

EmptyDir ==
  [ pkg     |-> NoText,      \* package-file
    param   |-> NoText,      \* parameter.txt
    meta    |-> NoText,      \* partition-metadata.txt
    subdirs |-> {},
    files   |-> << >> ]

\* the directory part of a relative path: what precedes its last '/'
ParentOf(path) ==
  LET at == {i \in 1..Len(path) : path[i] = 47}
  IN  IF at = {} THEN << >>
      ELSE SubSeq(path, 1, (CHOOSE i \in at : \A j \in at : j <= i) - 1)

\* File::create(dir/path) succeeds when path names a file in an existing
\* directory
CanCreate(d, path) ==
  /\ path # << >>
  /\ path[Len(path)] # 47
  /\ (ParentOf(path) = << >> \/ ParentOf(path) \in d.subdirs)

\* the outcome of a call
NoResult == [op |-> "none", kind |-> "none", msg |-> ""]

-----------------------------------------------------------------------------
(* pack.rs: parse_partition_metadata                                       *)

\* what one line of partition-metadata.txt yields (pack.rs:103-121):
\*   skip: a blank line, or fewer than 7 comma-separated fields
\*   err:  a numeric field u32::from_str_radix rejects
\*   some: an entry of the map
metadata_line(raw) ==
  LET line   == trim(raw)
      parts  == split(line, {44})
      num(k) == from_str_radix16(trim_start_matches(parts[k], <<48, 120>>))
  IN  IF line = << >> \/ Len(parts) < 7 THEN [kind |-> "skip"]
      ELSE IF ~num(3).ok \/ ~num(4).ok \/ ~num(6).ok THEN [kind |-> "err"]
      ELSE [ kind |-> "some",
             name |-> parts[1],
             meta |-> [ flash_size   |-> num(3).v,
                        flash_offset |-> num(4).v,
                        padded_size  |-> num(6).v ] ]

\* parse_partition_metadata(input_dir): Ok(empty map) when the file cannot be
\* opened, Err on the first line that fails, else the map, a later line
\* replacing an earlier one of the same name (HashMap::insert)
parse_partition_metadata(d) ==
  LET parsed == [k \in 1..Len(d.meta.lines) |-> metadata_line(d.meta.lines[k])]
      some   == {k \in 1..Len(parsed) : parsed[k].kind = "some"}
      names  == {parsed[k].name : k \in some}
      last(n) == CHOOSE k \in some :
                   /\ parsed[k].name = n
                   /\ \A j \in some : parsed[j].name = n => j <= k
  IN  IF ~d.meta.exists THEN [ok |-> TRUE, map |-> << >>]
      ELSE IF \E k \in 1..Len(parsed) : parsed[k].kind = "err"
        THEN [ok |-> FALSE, map |-> << >>]
      ELSE [ok |-> TRUE, map |-> [n \in names |-> parsed[last(n)].meta]]

-----------------------------------------------------------------------------
(* pack.rs: pack_rkaf                                                      *)

sector_size == 2048

\* pack.rs:285-297: the (name, path) pairs of package-file; blank lines,
\* lines starting with # and lines of fewer than two fields are passed over
read_file_list(lines) ==
  LET keep == SelectSeq(lines, LAMBDA raw :
                LET line == trim(raw)
                IN  /\ line # << >>
                    /\ line[1] # 35
                    /\ Len(split_whitespace(line)) >= 2)
  IN  [k \in 1..Len(keep) |->
         [ name |-> split_whitespace(trim(keep[k]))[1],
           path |-> split_whitespace(trim(keep[k]))[2] ]]

MACHINE_ID_KEY == << 77, 65, 67, 72, 73, 78, 69, 95, 73, 68, 58 >>   \* "MACHINE_ID:"

\* pack.rs:303-314: the value of the first MACHINE_ID: line of parameter.txt,
\* empty when the file or the line is absent
read_machine_id(param) ==
  LET hits == {k \in 1..Len(param.lines) : starts_with(param.lines[k], MACHINE_ID_KEY)}
      line == param.lines[CHOOSE k \in hits : \A j \in hits : k <= j]
  IN  IF ~param.exists \/ hits = {} THEN << >>
      ELSE trim(split(line, {58})[2])

\* A plausible slip in the copy length: the whole buffer is used, leaving no
\* terminating zero.
copy_to_field_full(s, width) ==
  LET len == Min(Len(s), width)
  IN  SubSeq(s, 1, len) \o Zeros(width - len)

\* pack.rs:324-326 (and 333-335, 391-393, 395-397): copy at most width - 1
\* bytes of s into a zeroed buffer of width bytes
copy_to_field(s, width) ==
  LET len == Min(Len(s), width - 1)
  IN  SubSeq(s, 1, len) \o Zeros(width - len)

\* pack.rs:319-323 (and 328-332): a space is put first unless one leads
space_prefixed(s) == IF starts_with(s, <<32>>) THEN s ELSE <<32>> \o s

\* pack.rs:319-326: the model (or manufacturer) field of the header
encode_string_field(s, width) == copy_to_field(space_prefixed(s), width)

\* pack.rs:337-347: the id field; nothing is written for an empty id, and
\* the space is always added
encode_id_field(machine_id) ==
  IF machine_id = << >> THEN Zeros(MAX_ID_LEN)
  ELSE copy_to_field(<<32>> \o machine_id, MAX_ID_LEN)

\* A plausible slip: a sector is always added, also to a whole number of
\* sectors.
padded_plus_sector(file_size) == ((file_size \div sector_size) + 1) * sector_size

\* pack.rs:378: the size rounded up to a whole number of sectors
padded(file_size) == ((file_size + sector_size - 1) \div sector_size) * sector_size

PkIdle ==
  [ pc                 |-> "idle",
    input_dir          |-> "",
    output_file        |-> "",
    model              |-> << >>,
    manufacturer       |-> << >>,
    file_list          |-> << >>,
    header             |-> UpdateHeaderDefault,
    partition_metadata |-> << >>,
    current_offset     |-> 0,
    file_data_map      |-> << >>,
    file_data_list     |-> << >>,
    i                  |-> 0,
    w                  |-> 0 ]

\* the call pack_rkaf(input_dir, output_file, model, manufacturer)
PkCall(input_dir, output_file, model, manufacturer) ==
  [ PkIdle EXCEPT !.pc = "parse", !.input_dir = input_dir, !.output_file = output_file,
                  !.model = model, !.manufacturer = manufacturer ]

\* pack_rkaf returns (or panics): its locals are dropped
PkReturn(kind, msg) ==
  /\ result' = [op |-> "pack_rkaf", kind |-> kind, msg |-> msg]
  /\ pk' = PkIdle

\* pack.rs:278-359: package-file, parameter.txt, the header's strings, the
\* geometry, the start of the data region
PackRkafParse ==
  /\ pk.pc = "parse"
  /\ LET d         == dirs[pk.input_dir]
         file_list == read_file_list(d.pkg.lines)
         header    == [ UpdateHeaderDefault EXCEPT
                          !.magic = RKAF_SIGNATURE,
                          !.model = encode_string_field(pk.model, MAX_MODEL_LEN),
                          !.manufacturer =
                             encode_string_field(pk.manufacturer, MAX_MANUFACTURER_LEN),
                          !.id = encode_id_field(read_machine_id(d.param)),
                          !.num_parts = Len(file_list),
                          !.version = 16777216 ]
         metadata  == parse_partition_metadata(d)
     IN  IF ~d.pkg.exists THEN PkReturn("Err", "Cannot find package-file")
         ELSE IF file_list = << >> THEN PkReturn("Err", "No files found in package-file")
         ELSE IF ~metadata.ok THEN PkReturn("Err", "partition-metadata.txt: invalid digit")
         ELSE IF DOMAIN metadata.map = {} THEN PkReturn("Err", "Missing partition metadata")
         ELSE /\ pk' = [ pk EXCEPT
                           !.pc = "layout",
                           !.file_list = file_list,
                           !.header = header,
                           !.partition_metadata = metadata.map,
                           !.current_offset =
                              ((UpdateHeaderSize + sector_size - 1) \div sector_size)
                                * sector_size,
                           !.i = 0 ]
              /\ UNCHANGED result
  /\ UNCHANGED << dirs, imgs, un, env, fn_in, fn_out >>

\* A plausible slip: a path seen before is laid out again, as a new file.
PkKnown_never(path) == FALSE

\* pack.rs:365: file_data_map.get(path) is Some
PkKnown(path) == path \in DOMAIN pk.file_data_map

\* pack.rs:364-411: one iteration of the layout loop, on file_list[i]
PackRkafLayout ==
  /\ pk.pc = "layout"
  /\ pk.i < Len(pk.file_list)
  /\ LET d      == dirs[pk.input_dir]
         name   == pk.file_list[pk.i + 1].name
         path   == pk.file_list[pk.i + 1].path
         known  == PkKnown(path)
         \* 370-386: the file is loaded and laid out at the cursor
         file_data   == d.files[path]
         file_size   == IF known THEN Len(pk.file_data_map[path].data) ELSE Len(file_data)
         padded_size == padded(file_size)
         file_offset == IF known THEN pk.file_data_map[path].offset ELSE pk.current_offset
         meta   == pk.partition_metadata[name]
         part   == [ name            |-> copy_to_field(name, MAX_NAME_LEN),
                     full_path       |-> copy_to_field(path, MAX_FULL_PATH_LEN),
                     flash_size      |-> meta.flash_size,
                     flash_offset    |-> meta.flash_offset,
                     padded_size     |-> meta.padded_size,
                     part_offset     |-> file_offset,
                     part_byte_count |-> file_size ]
     IN  IF ~known /\ path \notin DOMAIN d.files
           THEN PkReturn("Err", "Cannot open file")
         ELSE IF name \notin DOMAIN pk.partition_metadata
           THEN PkReturn("Err", "Missing partition metadata for name")
         ELSE IF pk.i >= MAX_PARTS
           THEN PkReturn("Panic", "index out of bounds: header.parts[i]")
         ELSE /\ pk' = [ pk EXCEPT
                           !.file_data_map =
                              IF known THEN @
                              ELSE (path :> [ data   |-> file_data,
                                              offset |-> file_offset,
                                              padded |-> padded_size ]) @@ @,
                           !.file_data_list =
                              IF known THEN @
                              ELSE Append(@, [path |-> path, data |-> file_data]),
                           !.current_offset = IF known THEN @ ELSE @ + padded_size,
                           !.header.parts[pk.i + 1] = part,
                           !.i = @ + 1 ]
              /\ UNCHANGED result
  /\ UNCHANGED << dirs, imgs, un, env, fn_in, fn_out >>

\* A plausible slip: the length field counts the checksum too.
header_length_with_trailer(current_offset) == current_offset + 4

\* pack.rs:413: header.length = current_offset as u32, for a cursor below
\* 2^31
header_length(current_offset) == current_offset

\* pack.rs:413-420: the length field, File::create, the header and its
\* padding up to the sector
PackRkafCreate ==
  /\ pk.pc = "layout"
  /\ pk.i = Len(pk.file_list)
  /\ LET header == [pk.header EXCEPT !.length = header_length(pk.current_offset)]
     IN  /\ pk' = [pk EXCEPT !.pc = "write", !.header = header, !.w = 0]
         /\ imgs' = [ imgs EXCEPT ![pk.output_file] =
                        FileOf(UpdateHeader_to_bytes(header)
                                 \o Zeros(sector_size - UpdateHeaderSize)) ]
  /\ UNCHANGED << dirs, un, result, env, fn_in, fn_out >>

\* A plausible slip: no padding is written after a file.
padding_size_none(padded_size, file_data) == 0

\* pack.rs:427: the zeros written after a file
padding_size_of(padded_size, file_data) == padded_size - Len(file_data)

\* pack.rs:422-431: one distinct file and its padding
PackRkafWriteFile ==
  /\ pk.pc = "write"
  /\ pk.w < Len(pk.file_data_list)
  /\ LET path         == pk.file_data_list[pk.w + 1].path
         file_data    == pk.file_data_list[pk.w + 1].data
         padding_size == padding_size_of(pk.file_data_map[path].padded, file_data)
     IN  imgs' = [ imgs EXCEPT ![pk.output_file].data =
                     @ \o file_data \o Zeros(padding_size) ]
  /\ pk' = [pk EXCEPT !.w = @ + 1]
  /\ UNCHANGED << dirs, un, result, env, fn_in, fn_out >>

\* A plausible slip: the checksum is taken over the header sector only.
checksum_input_header_only(file_content) == SubSeq(file_content, 1, sector_size)

\* pack.rs:433-434: the bytes the checksum is taken over
checksum_input(file_content) == file_content

\* pack.rs:433-450: the file is read back, checksummed, and the checksum
\* appended; Ok(())
PackRkafChecksum ==
  /\ pk.pc = "write"
  /\ pk.w = Len(pk.file_data_list)
  /\ LET file_content == imgs[pk.output_file].data
         checksum     == rkcrc32(<<0, 0, 0, 0>>, checksum_input(file_content))
     IN  imgs' = [ imgs EXCEPT ![pk.output_file].data =
                     @ \o word_to_le_bytes(checksum) ]
  /\ PkReturn("Ok", "")
  /\ UNCHANGED << dirs, un, env, fn_in, fn_out >>

-----------------------------------------------------------------------------
(* pack.rs: pack_rkfw                                                      *)

T_BOOT == << 66, 79, 79, 84 >>                                  \* "BOOT"
T_embedded_update_img ==                          \* "embedded-update.img"
  << 101, 109, 98, 101, 100, 100, 101, 100, 45, 117, 112, 100, 97, 116, 101, 46, 105, 109, 103 >>

\* u32::from_str_radix(s, 16) as the four bytes of the value, least
\* significant first: an optional + sign, then one or more hexadecimal
\* digits, at most 8 of them after the leading zeros
hex_u32(s) ==
  LET digits == IF s # << >> /\ s[1] = 43 THEN Tail(s) ELSE s
      sig    == trim_start_matches(digits, <<48>>)
      eight  == [k \in 1..(8 - Len(sig)) |-> 0]
                  \o [k \in 1..Len(sig) |-> HexDigitValue(sig[k])]
  IN  IF digits = << >> \/ \E i \in 1..Len(digits) : HexDigitValue(digits[i]) < 0
        THEN [ok |-> FALSE, bytes |-> << >>]
      ELSE IF Len(sig) > 8 THEN [ok |-> FALSE, bytes |-> << >>]
      ELSE [ok |-> TRUE,
            bytes |-> << 16 * eight[7] + eight[8], 16 * eight[5] + eight[6],
                         16 * eight[3] + eight[4], 16 * eight[1] + eight[2] >>]

RECURSIVE DecValue(_, _)
DecValue(s, n) == IF n = 0 THEN 0 ELSE 10 * DecValue(s, n - 1) + (s[n] - 48)

\* str::parse::<u8>() and ::<u16>(): an optional + sign, then one or more
\* decimal digits whose value is at most max (255 or 65535)
parse_uint(s, max) ==
  LET digits == IF s # << >> /\ s[1] = 43 THEN Tail(s) ELSE s
      sig    == trim_start_matches(digits, <<48>>)
  IN  IF digits = << >> \/ \E i \in 1..Len(digits) : digits[i] \notin 48..57
        THEN [ok |-> FALSE, v |-> 0]
      ELSE IF Len(sig) > 5 \/ DecValue(sig, Len(sig)) > max THEN [ok |-> FALSE, v |-> 0]
      ELSE [ok |-> TRUE, v |-> DecValue(sig, Len(sig))]

\* str::to_uppercase on ASCII
to_uppercase(s) == [i \in 1..Len(s) |-> IF s[i] \in 97..122 THEN s[i] - 32 ELSE s[i]]

\* pack.rs:254-267: the code of a chip family
chip_name_to_code(chip) ==
  LET name == to_uppercase(chip)
  IN  CASE name \in {<<82, 75, 50, 57, 88, 88>>, <<82, 75, 50, 57>>} -> [ok |-> TRUE, code |-> 80]
        [] name \in {<<82, 75, 51, 48, 88, 88>>, <<82, 75, 51, 48>>} -> [ok |-> TRUE, code |-> 96]
        [] name \in {<<82, 75, 51, 49, 88, 88>>, <<82, 75, 51, 49>>} -> [ok |-> TRUE, code |-> 112]
        [] name \in {<<82, 75, 51, 50, 88, 88>>, <<82, 75, 51, 50>>} -> [ok |-> TRUE, code |-> 128]
        [] name = <<82, 75, 51, 51, 54, 56>> -> [ok |-> TRUE, code |-> 65]
        [] name = <<82, 75, 51, 51, 50, 54>> -> [ok |-> TRUE, code |-> 54]
        [] name = <<82, 75, 51, 53, 54, 50>> -> [ok |-> TRUE, code |-> 50]
        [] name = <<82, 75, 51, 53, 54, 54>> -> [ok |-> TRUE, code |-> 56]
        [] name = <<80, 88, 51, 48>> -> [ok |-> TRUE, code |-> 48]
        [] OTHER -> [ok |-> FALSE, code |-> 0]

\* pack.rs:207-216: the chip's digits, third, second, first; zeros when it
\* has fewer than three
chip_digits(chip) ==
  LET digits == SelectSeq(chip, LAMBDA c : c \in 48..57)
  IN  IF Len(digits) >= 3 THEN << digits[3], digits[2], digits[1] >> ELSE << 0, 0, 0 >>

\* the i64 timestamp of n seconds, as the days and the seconds of the day
\* chrono splits it into: timestamp = 86400 * days + secs
Timestamp(n) == [days |-> n \div 86400, secs |-> n % 86400]

\* chrono::DateTime::from_timestamp(timestamp, 0).naive_utc(): the calendar
\* fields of a count of seconds since 1970-01-01T00:00:00, and whether the
\* date is one chrono represents (the years -262143 to 262142)
from_timestamp(timestamp) ==
  LET days == timestamp.days
      secs == timestamp.secs
      z    == days + 719468
      era  == z \div 146097
      doe  == z - era * 146097
      yoe  == (doe - (doe \div 1460) + (doe \div 36524) - (doe \div 146096)) \div 365
      doy  == doe - (365 * yoe + (yoe \div 4) - (yoe \div 100))
      mp   == (5 * doy + 2) \div 153
      m    == IF mp < 10 THEN mp + 3 ELSE mp - 9
      year == yoe + era * 400 + (IF m <= 2 THEN 1 ELSE 0)
  IN  [ ok     |-> year >= -262143 /\ year <= 262142,
        year   |-> year,
        month  |-> m,
        day    |-> doy - ((153 * mp + 2) \div 5) + 1,
        hour   |-> secs \div 3600,
        minute |-> (secs \div 60) % 60,
        second |-> secs % 60 ]

header_size == 102   \* 0x66

\* A plausible slip: the embedded container is located right after the
\* header, as if BOOT were empty.
update_offset_no_boot(boot_offset, boot_size) == boot_offset

\* pack.rs:166: the embedded container begins right after BOOT
update_offset_of(boot_offset, boot_size) == boot_offset + boot_size

\* pack.rs:169-225: the 0x66 bytes of the header, from the version
\* [build, minor, major], the code's bytes, the date and time, the chip
\* [code, digits] and the places [offset, size] of BOOT and of the embedded
\* container
rkfw_header(ver, code_bytes, datetime, chip, boot, update) ==
  RKFW_SIGNATURE
    \o << header_size % 256, 0 >>
    \o << ver.build % 256, (ver.build \div 256) % 256, ver.minor, ver.major >>
    \o code_bytes
    \o << datetime.year % 256, (datetime.year \div 256) % 256,
          datetime.month % 256, datetime.day % 256, datetime.hour % 256,
          datetime.minute % 256, datetime.second % 256 >>
    \o << chip.code >>
    \o chip.digits
    \o to_le_bytes(boot.offset) \o to_le_bytes(boot.size)
    \o to_le_bytes(update.offset) \o to_le_bytes(update.size)
    \o Zeros(4) \o << 1 >> \o Zeros(header_size - 46)

\* format!("{:x}", digest): two lowercase hexadecimal digits for each byte
fmt_hex_digest(digest) ==
  [k \in 1..(2 * Len(digest)) |->
     HexDigit(IF k % 2 = 1 THEN digest[(k + 1) \div 2] \div 16 ELSE digest[k \div 2] % 16)]

\* the arguments of the pack-rkfw command (main.rs:24-42)
RkfwArgs(chip, version, timestamp, code) ==
  [chip |-> chip, version |-> version, timestamp |-> timestamp, code |-> code]

\* A plausible slip: the output file is created before the inputs are
\* checked, so an error leaves it empty.
rkfw_err_after_create(msg) ==
  [kind |-> "Err", msg |-> msg, written |-> TRUE, data |-> << >>]

\* an error pack_rkfw returns (pack.rs:130-187): each comes before
\* File::create (pack.rs:235), so nothing is written
rkfw_err(msg) == [kind |-> "Err", msg |-> msg, written |-> FALSE, data |-> << >>]

\* pack_rkfw(input_dir, output_file, chip, version, timestamp, code_hex)
\* (pack.rs:127-252): the value it returns and the bytes it writes, if any
pack_rkfw(d, chip, version, timestamp, code_hex) ==
  LET hex_str       == trim_start_matches(trim_start_matches(code_hex, <<48, 120>>), <<48, 88>>)
      code_value    == hex_u32(hex_str)
      version_parts == split(version, {46})
      major         == parse_uint(version_parts[1], 255)
      minor         == parse_uint(version_parts[2], 255)
      build         == parse_uint(version_parts[3], 65535)
      chip_code     == chip_name_to_code(chip)
      boot_data     == d.files[T_BOOT]
      update_data   == d.files[T_embedded_update_img]
      boot_offset   == header_size
      boot_size     == Len(boot_data)
      update_offset == update_offset_of(boot_offset, boot_size)
      update_size   == Len(update_data)
      header        == rkfw_header([build |-> build.v, minor |-> minor.v, major |-> major.v],
                                   code_value.bytes, from_timestamp(timestamp),
                                   [code |-> chip_code.code, digits |-> chip_digits(chip)],
                                   [offset |-> boot_offset, size |-> boot_size],
                                   [offset |-> update_offset, size |-> update_size])
      file_data     == header \o boot_data \o update_data
      md5_hex       == fmt_hex_digest(md5_compute(file_data))
      Err(msg)      == rkfw_err(msg)
  IN  IF ~code_value.ok THEN Err("Invalid hex value for code field")
      ELSE IF Len(version_parts) # 3 THEN Err("Version must be in format: major.minor.build")
      ELSE IF ~major.ok THEN Err("Invalid major version")
      ELSE IF ~minor.ok THEN Err("Invalid minor version")
      ELSE IF ~build.ok THEN Err("Invalid build number")
      ELSE IF ~chip_code.ok THEN Err("Unsupported chip family")
      ELSE IF T_BOOT \notin DOMAIN d.files THEN Err("Cannot find BOOT file")
      ELSE IF T_embedded_update_img \notin DOMAIN d.files
        THEN Err("Cannot find embedded-update.img file")
      ELSE IF Len(update_data) < 4 \/ Slice(update_data, 0, 4) # RKAF_SIGNATURE
        THEN Err("embedded-update.img must be a valid RKAF file")
      ELSE IF ~from_timestamp(timestamp).ok THEN Err("Invalid timestamp")
      ELSE [kind |-> "Ok", msg |-> "", written |-> TRUE, data |-> file_data \o md5_hex]


-----------------------------------------------------------------------------
(* unpack.rs: unpack_file, unpack_rkafp, extract_file                      *)

CHUNK == 16384   \* 16 * 1024, the copy buffer of extract_file

S_SELF == << 83, 69, 76, 70 >>                          \* "SELF"
S_RESERVED == << 82, 69, 83, 69, 82, 86, 69, 68 >>      \* "RESERVED"
S_Image == << 73, 109, 97, 103, 101 >>                  \* "Image"
S_unknown == << 117, 110, 107, 110, 111, 119, 110 >>    \* "unknown"

UnIdle ==
  [ pc           |-> "idle",
    file_path    |-> "",
    dst_path     |-> "",
    header       |-> UpdateHeaderDefault,
    manufacturer |-> << >>,
    model        |-> << >>,
    warned       |-> FALSE,
    i            |-> 0 ]

\* the call unpack_file(file_path, dst_path)
UnCall(file_path, dst_path) ==
  [UnIdle EXCEPT !.pc = "open", !.file_path = file_path, !.dst_path = dst_path]

UnReturn(kind, msg) ==
  /\ result' = [op |-> "unpack_file", kind |-> kind, msg |-> msg]
  /\ un' = UnIdle

\* unpack.rs:9-20: the file is read and its first four bytes select the
\* decoder; buffer[0..4] panics on a shorter file
UnpackFile ==
  /\ un.pc = "open"
  /\ LET file   == imgs[un.file_path]
         buffer == file.data
     IN  IF ~file.exists THEN UnReturn("Err", "No such file or directory")
         ELSE IF Len(buffer) < 4
           THEN UnReturn("Panic", "range end index 4 out of range for slice")
         ELSE IF Slice(buffer, 0, 4) = RKAF_SIGNATURE
           THEN un' = [un EXCEPT !.pc = "rkafp"] /\ UNCHANGED result
         ELSE IF Slice(buffer, 0, 4) = RKFW_SIGNATURE
           THEN un' = [un EXCEPT !.pc = "rkfw"] /\ UNCHANGED result
         ELSE UnReturn("Err", "Unknown signature")
  /\ UNCHANGED << dirs, imgs, pk, env, fn_in, fn_out >>

\* CStr::from_bytes_until_nul(..).map(to_string_lossy).unwrap_or("unknown")
\* (unpack.rs:163-168)
field_text(buf) ==
  IF from_bytes_until_nul(buf).ok THEN from_bytes_until_nul(buf).s ELSE S_unknown

\* A plausible slip: a length field that does not match the file is an error.
header_error_on_length(data) ==
  LET header == UpdateHeader_from_bytes(SubSeq(data, 1, UpdateHeaderSize))
  IN  IF Len(data) < UpdateHeaderSize THEN "failed to fill whole buffer"
      ELSE IF header.magic # RKAFP_MAGIC THEN "Invalid header magic id"
      ELSE IF Len(data) - 4 # header.length
        THEN "update_header.length cannot be correct"
      ELSE ""

\* unpack.rs:148-160: the error unpack_rkafp returns on reading the header,
\* "" when it returns none: read_exact needs the whole header and the magic
\* must be RKAF; the test of the length field returns nothing
header_error(data) ==
  LET header == UpdateHeader_from_bytes(SubSeq(data, 1, UpdateHeaderSize))
  IN  IF Len(data) < UpdateHeaderSize THEN "failed to fill whole buffer"
      ELSE IF header.magic # RKAFP_MAGIC THEN "Invalid header magic id"
      ELSE ""

\* unpack.rs:147-175: the header is read and checked, the Image directory
\* and an empty partition-metadata.txt are created
UnpackRkafpHeader ==
  /\ un.pc = "rkafp"
  /\ LET data   == imgs[un.file_path].data
         header == UpdateHeader_from_bytes(SubSeq(data, 1, UpdateHeaderSize))
     IN  IF header_error(data) # ""
           THEN UnReturn("Err", header_error(data)) /\ UNCHANGED dirs
         ELSE /\ un' = [ un EXCEPT
                           !.pc = "parts",
                           !.header = header,
                           !.warned = (Len(data) - 4 # header.length),
                           !.manufacturer = field_text(header.manufacturer),
                           !.model = field_text(header.model),
                           !.i = 0 ]
              /\ dirs' = [ dirs EXCEPT
                             ![un.dst_path].subdirs = @ \cup {S_Image},
                             ![un.dst_path].meta = TextOf(<< >>) ]
              /\ UNCHANGED result
  /\ UNCHANGED << imgs, pk, env, fn_in, fn_out >>

\* the read loop of extract_file (unpack.rs:126-139) from position pos of
\* the source: chunks of at most CHUNK bytes are appended to out until
\* remaining is 0; a chunk the source cannot fill is an error, the chunks
\* before it staying written
\* A plausible slip: a read that returns fewer bytes than asked for ends the
\* copy without an error.
copy_chunks_unchecked(src, pos, remaining, out) ==
  [ok |-> TRUE, data |-> out \o Slice(src, pos, Min(pos + remaining, Len(src)))]

RECURSIVE copy_chunks(_, _, _, _)
copy_chunks(src, pos, remaining, out) ==
  IF remaining = 0 THEN [ok |-> TRUE, data |-> out]
  ELSE LET read_len   == Min(remaining, CHUNK)
           left       == IF Len(src) > pos THEN Len(src) - pos ELSE 0
           read_bytes == Min(read_len, left)
       IN  IF read_bytes # read_len THEN [ok |-> FALSE, data |-> out]
           ELSE copy_chunks(src, pos + read_len, remaining - read_len,
                            out \o Slice(src, pos, pos + read_len))

\* A plausible slip: the copy starts at the beginning of the source instead
\* of the partition's offset.
extract_file_no_seek(src, offset, len) == copy_chunks(src, 0, len, << >>)

\* extract_file(fp, offset, len, full_path), after File::create: what is
\* written to the new file, and whether the copy succeeded
extract_file(src, offset, len) == copy_chunks(src, offset, len, << >>)

\* unpack.rs:198-208: the line of partition-metadata.txt
metadata_text(part_name, part_full_path, part) ==
  part_name \o <<44>> \o part_full_path
    \o <<44>> \o fmt_hex010(part.flash_size)
    \o <<44>> \o fmt_hex010(part.flash_offset)
    \o <<44>> \o fmt_hex010(part.part_offset)
    \o <<44>> \o fmt_hex010(part.padded_size)
    \o <<44>> \o fmt_hex010(part.part_byte_count)

\* A plausible slip: no entry is taken for a marker.
is_marker_never(full_path) == FALSE

\* unpack.rs:182: the entries that describe the container itself
is_marker(full_path) == full_path = S_SELF \/ full_path = S_RESERVED

\* unpack.rs:177-218: one iteration of the loop over the first num_parts
\* entries; header.parts[i] panics from i = MAX_PARTS on
UnpackRkafpPart ==
  /\ un.pc = "parts"
  /\ un.i < un.header.num_parts
  /\ LET part      == un.header.parts[un.i + 1]
         cstr_path == from_bytes_until_nul(part.full_path)
         cstr_name == from_bytes_until_nul(part.name)
         part_name == IF cstr_name.ok THEN cstr_name.s ELSE << >>
         d         == dirs[un.dst_path]
         copied    == extract_file(imgs[un.file_path].data, part.part_offset,
                                   part.part_byte_count)
         line      == metadata_text(part_name, cstr_path.s, part)
         next      == [un EXCEPT !.i = @ + 1]
     IN  IF un.i >= MAX_PARTS
           THEN UnReturn("Panic", "index out of bounds: header.parts[i]")
                /\ UNCHANGED dirs
         ELSE IF ~cstr_path.ok \/ is_marker(cstr_path.s)
           THEN un' = next /\ UNCHANGED << dirs, result >>
         ELSE IF ~CanCreate(d, cstr_path.s)
           THEN /\ dirs' = [dirs EXCEPT ![un.dst_path].meta.lines = Append(@, line)]
                /\ UnReturn("Err", "File::create: No such file or directory")
         ELSE /\ dirs' = [ dirs EXCEPT
                             ![un.dst_path].meta.lines = Append(@, line),
                             ![un.dst_path].files =
                                (cstr_path.s :> copied.data) @@ @ ]
              /\ IF copied.ok THEN un' = next /\ UNCHANGED result
                 ELSE UnReturn("Err", "Insufficient length in container image file")
  /\ UNCHANGED << imgs, pk, env, fn_in, fn_out >>

\* unpack.rs:220-222: the loop is over; Ok(())
UnpackRkafpDone ==
  /\ un.pc = "parts"
  /\ un.i >= un.header.num_parts
  /\ UnReturn("Ok", "")
  /\ UNCHANGED << dirs, imgs, pk, env, fn_in, fn_out >>

\* get_u32_le(&buf[at..]) for a buffer that holds the four bytes
get_u32_le(buf, at) == from_le_bytes(Slice(buf, at, at + 4))

\* the days of a month of the proleptic Gregorian calendar
days_in_month(year, month) ==
  IF month = 2
    THEN (IF year % 4 = 0 /\ (year % 100 # 0 \/ year % 400 = 0) THEN 29 ELSE 28)
  ELSE IF month \in {4, 6, 9, 11} THEN 30 ELSE 31

\* chrono::NaiveDate::from_ymd_opt is Some
from_ymd_opt(year, month, day) ==
  month \in 1..12 /\ day >= 1 /\ day <= days_in_month(year, month)

\* chrono::NaiveTime::from_hms_opt is Some
from_hms_opt(hour, minute, second) == hour < 24 /\ minute < 60 /\ second < 60

\* unpack_rkfw(buf, dst_path) (unpack.rs:24-117): what it returns and the
\* files it has written by then.  Indexing and slicing beyond the buffer
\* panic.  ioff + isize - 1 (unpack.rs:88, 108) overflows when both are 0:
\* a build with overflow checks panics there and one without goes on, which
\* wraps tells apart.
unpack_rkfw(buf, wraps) ==
  LET n      == Len(buf)
      year   == 256 * buf[16] + buf[15]
      ioff   == get_u32_le(buf, 25)
      isize  == get_u32_le(buf, 29)
      uoff   == get_u32_le(buf, 33)
      usize  == get_u32_le(buf, 37)
      boot   == T_BOOT :> Slice(buf, ioff, ioff + isize)
      both   == (T_embedded_update_img :> Slice(buf, uoff, uoff + usize)) @@ boot
      Out(kind, msg, files) == [kind |-> kind, msg |-> msg, files |-> files]
  IN  IF n < 21 THEN Out("Panic", "index out of bounds", << >>)
      ELSE IF ~from_ymd_opt(year, buf[17], buf[18]) THEN Out("Err", "Invalid date", << >>)
      ELSE IF ~from_hms_opt(buf[19], buf[20], buf[21]) THEN Out("Err", "Invalid time", << >>)
      ELSE IF n < 33 THEN Out("Panic", "index out of bounds", << >>)
      ELSE IF ioff + isize = 0 /\ ~wraps
        THEN Out("Panic", "attempt to subtract with overflow", << >>)
      ELSE IF ioff + isize > n THEN Out("Panic", "range end index out of range", << >>)
      ELSE IF n < 41 THEN Out("Panic", "index out of bounds", boot)
      ELSE IF uoff + 4 > n THEN Out("Panic", "range end index out of range", boot)
      ELSE IF Slice(buf, uoff, uoff + 4) # RKAF_SIGNATURE
        THEN Out("Panic", "cannot find embedded RKAF update.img", boot)
      ELSE IF uoff + usize > n THEN Out("Panic", "range end index out of range", boot)
      ELSE Out("Ok", "", both)

\* unpack_file on an outer container: the whole of unpack_rkfw
UnpackRkfw ==
  /\ un.pc = "rkfw"
  /\ \E wraps \in BOOLEAN :
       LET r == unpack_rkfw(imgs[un.file_path].data, wraps)
       IN  /\ dirs' = [dirs EXCEPT ![un.dst_path].files = r.files @@ @]
           /\ UnReturn(r.kind, r.msg)
  /\ UNCHANGED << imgs, pk, env, fn_in, fn_out >>

-----------------------------------------------------------------------------
(* The caller and the inputs                                               *)

MaxEntries == 2

T_boot == << 98, 111, 111, 116 >>                      \* "boot"
T_kernel == << 107, 101, 114, 110, 101, 108 >>         \* "kernel"
T_misc == << 109, 105, 115, 99 >>                      \* "misc"
T_backup == << 98, 97, 99, 107, 117, 112 >>            \* "backup"
T_boot_img == S_Image \o << 47, 98, 111, 111, 116, 46, 105, 109, 103 >>   \* "Image/boot.img"
T_misc_img == S_Image \o << 47, 109, 105, 115, 99, 46, 105, 109, 103 >>   \* "Image/misc.img"
T_model == << 82, 75, 51, 53, 54, 54 >>                \* "RK3566"
T_manufacturer == << 32, 82, 111, 99, 107 >>           \* " Rock"
T_comment == << 35, 32, 110, 97, 109, 101, 9, 112, 97, 116, 104 >>   \* "# name<TAB>path"
T_firmware_ver == << 70, 73, 82, 77, 87, 65, 82, 69, 95, 86, 69, 82, 58, 56, 46, 49 >>
T_machine_id == MACHINE_ID_KEY \o << 32, 48, 48, 55 >>  \* "MACHINE_ID: 007"

\* a manifest entry and the geometry its partition has on the device
Entry(name, path, flash_size, flash_offset, padded_size) ==
  [ name |-> name, path |-> path,
    geo  |-> [flash_size |-> flash_size, flash_offset |-> flash_offset,
              padded_size |-> padded_size] ]

\* two names for one file, a second file, and a marker
Entries ==
  { Entry(T_boot, T_boot_img, 8192, 16384, 2048),
    Entry(T_kernel, T_boot_img, 8192, 16384, 2048),
    Entry(T_misc, T_misc_img, 40960, 24576, 4096),
    Entry(T_backup, S_RESERVED, 65536, 131072, 0) }

ShortManifests == UNION { [1..n -> Entries] : n \in 0..MaxEntries }

\* n partitions p01, p02, ... that all name the file of boot
LongManifest(n) ==
  [k \in 1..n |->
     Entry(<< 112, 48 + (k \div 10), 48 + (k % 10) >>, T_boot_img, 4096 * k, 8192 * k, 2048)]

LongManifests == { LongManifest(n) : n \in MAX_PARTS..(MAX_PARTS + 2) }

\* the line of package-file for an entry: name, a tab, path
PackageLine(e) == e.name \o <<9>> \o e.path

\* the line of a geometry file for an entry, as unpack writes it; the two
\* fields pack_rkaf does not read are zero
GeometryLine(e) ==
  metadata_text(e.name, e.path,
                [ flash_size |-> e.geo.flash_size, flash_offset |-> e.geo.flash_offset,
                  padded_size |-> e.geo.padded_size, part_offset |-> 0,
                  part_byte_count |-> 0 ])

GeometryKinds == {"full", "absent", "blank", "short", "bad"}

\* partition-metadata.txt for a manifest:
\*   full    a line for every entry
\*   absent  no file
\*   blank   a file of blank lines
\*   short   no line for the last entry
\*   bad     a last line whose flash size is not a number
GeometryFile(manifest, kind) ==
  LET all == [k \in 1..Len(manifest) |-> GeometryLine(manifest[k])]
  IN  CASE kind = "full"   -> TextOf(all)
        [] kind = "absent" -> NoText
        [] kind = "blank"  -> TextOf(<< << >>, <<32>> >>)
        [] kind = "short"  -> TextOf(SubSeq(all, 1, Len(all) - 1))
        [] kind = "bad"    -> TextOf(Append(all,
                                 << 120, 44, 121, 44, 48, 120, 122, 44, 48, 44, 48, 44, 48, 44, 48 >>))

\* the sizes files are given: empty, one byte, a sector, a sector and a byte
FileSizes == << 0, 1, sector_size, sector_size + 1 >>

SizeChoices == 1..Len(FileSizes)

\* size bytes, none of them zero, that differ from file to file
Content(tag, size) == [i \in 1..size |-> ((i + tag) % 255) + 1]

\* the directory pack_rkaf is first run on
InputDir(manifest, choice, kind) ==
  [ pkg     |-> TextOf(<< T_comment, << >> >>
                         \o [k \in 1..Len(manifest) |-> PackageLine(manifest[k])]),
    param   |-> TextOf(<< T_firmware_ver, T_machine_id >>),
    meta    |-> GeometryFile(manifest, kind),
    subdirs |-> {S_Image},
    files   |-> (T_boot_img :> Content(7, FileSizes[choice]))
                  @@ (T_misc_img :> Content(99, FileSizes[(choice % Len(FileSizes)) + 1]))
                  @@ (S_RESERVED :> Content(200, 3)) ]

\* a container made by hand: a header, then data bytes
Crafted(header, data) == FileOf(UpdateHeader_to_bytes(header) \o data)

CraftedPart(name, path, offset, count) ==
  [ UpdatePartDefault EXCEPT
      !.name = copy_to_field(name, MAX_NAME_LEN),
      !.full_path = path \o Zeros(MAX_FULL_PATH_LEN - Len(path)),
      !.flash_size = 8192, !.flash_offset = 16384, !.padded_size = 2048,
      !.part_offset = offset, !.part_byte_count = count ]

CraftedHeader(num_parts, length, parts) ==
  [ UpdateHeaderDefault EXCEPT
      !.magic = RKAF_SIGNATURE,
      !.length = length,
      !.model = encode_string_field(T_model, MAX_MODEL_LEN),
      !.manufacturer = encode_string_field(T_manufacturer, MAX_MANUFACTURER_LEN),
      !.version = 16777216,
      !.num_parts = num_parts,
      !.parts = [k \in 1..MAX_PARTS |->
                   IF k <= Len(parts) THEN parts[k] ELSE UpdatePartDefault] ]

\* files that pack_rkaf did not write
CraftedFiles ==
  { \* shorter than a signature
    FileOf(<< 82, 75, 65 >>),
    \* an unknown signature
    FileOf(<< 82, 75, 88, 88, 0, 0, 0, 0 >>),
    \* the signature, but no whole header
    FileOf(RKAF_SIGNATURE \o Zeros(10)),
    \* one partition more than the table holds
    Crafted(CraftedHeader(MAX_PARTS + 1, UpdateHeaderSize + 4,
                          [k \in 1..MAX_PARTS |->
                             CraftedPart(T_boot, T_boot_img, UpdateHeaderSize, 2)]),
            << 1, 2, 3, 4 >> \o Zeros(4)),
    \* a full path that fills its buffer, then a marker, then a partition
    Crafted(CraftedHeader(3, UpdateHeaderSize + 4,
                          << CraftedPart(T_misc, [k \in 1..MAX_FULL_PATH_LEN |-> 97],
                                         UpdateHeaderSize, 2),
                             CraftedPart(T_backup, S_SELF, 0, 0),
                             CraftedPart(T_boot, T_boot_img, UpdateHeaderSize + 1, 3) >>),
            << 1, 2, 3, 4 >> \o Zeros(4)),
    \* a partition that ends beyond the file, and a length that does not match
    Crafted(CraftedHeader(2, UpdateHeaderSize,
                          << CraftedPart(T_boot, T_boot_img, UpdateHeaderSize, 3),
                             CraftedPart(T_misc, T_misc_img, UpdateHeaderSize + 2, 9) >>),
            << 1, 2, 3, 4 >> \o Zeros(4)) }

\* "f1", "f2", ...: files directly under the destination
T_f(k) == << 102, 48 + k >>

\* containers whose partitions lie around the copy buffer's size; their data
\* region holds CHUNK + 2 bytes and no trailer
ChunkFiles ==
  LET data == Content(3, CHUNK + 2)
      last == UpdateHeaderSize + CHUNK + 2
  IN  { \* a byte more than the buffer, ending where the file ends; the
        \* buffer; a byte less; no byte
        Crafted(CraftedHeader(4, last - 4,
                              << CraftedPart(T_boot, T_f(1), UpdateHeaderSize + 1, CHUNK + 1),
                                 CraftedPart(T_boot, T_f(2), UpdateHeaderSize, CHUNK),
                                 CraftedPart(T_boot, T_f(3), UpdateHeaderSize + 1, CHUNK - 1),
                                 CraftedPart(T_boot, T_f(4), UpdateHeaderSize, 0) >>),
                data),
        \* the second partition ends a byte beyond the file, after a whole
        \* buffer; a third follows
        Crafted(CraftedHeader(3, last,
                              << CraftedPart(T_boot, T_f(1), UpdateHeaderSize + 2, 2),
                                 CraftedPart(T_misc, T_f(2), UpdateHeaderSize + 1, CHUNK + 2),
                                 CraftedPart(T_kernel, T_f(3), UpdateHeaderSize, 1) >>),
                data) }

\* containers of 8 data bytes whose partitions lie around the end of the file
EdgeFiles ==
  LET data == << 1, 2, 3, 4, 5, 6, 7, 8 >>
      last == UpdateHeaderSize + 8
  IN  { \* the first partition begins beyond the file; a second follows
        Crafted(CraftedHeader(2, last - 4,
                              << CraftedPart(T_boot, T_f(1), last + 1, 1),
                                 CraftedPart(T_misc, T_f(2), UpdateHeaderSize, 1) >>),
                data),
        \* no byte from the end of the file, no byte from beyond it, and
        \* the last byte
        Crafted(CraftedHeader(3, last - 4,
                              << CraftedPart(T_boot, T_f(1), last, 0),
                                 CraftedPart(T_misc, T_f(2), last + 3, 0),
                                 CraftedPart(T_kernel, T_f(3), last - 1, 1) >>),
                data),
        \* a file in a directory that does not exist, then one that does
        Crafted(CraftedHeader(2, last - 4,
                              << CraftedPart(T_boot, << 120, 47, 121 >>, UpdateHeaderSize, 1),
                                 CraftedPart(T_misc, T_f(2), UpdateHeaderSize, 1) >>),
                data),
        \* two partitions extracted to one path
        Crafted(CraftedHeader(2, last,
                              << CraftedPart(T_boot, T_f(1), UpdateHeaderSize, 8),
                                 CraftedPart(T_misc, T_f(1), UpdateHeaderSize + 6, 2) >>),
                data) }

\* the container with the other answer to the test of unpack.rs:158: its
\* length field is made to match the file when it did not, and not to match
\* when it did; a file that holds no whole header has no such copy
LengthTwin(file) ==
  LET data   == file.data
      length == from_le_bytes(Slice(data, 4, 8))
      other  == IF length = Len(data) - 4 THEN length + 1 ELSE Len(data) - 4
  IN  IF file.exists /\ Len(data) >= UpdateHeaderSize
           /\ Slice(data, 0, 4) = RKAF_SIGNATURE
        THEN FileOf(Slice(data, 0, 4) \o to_le_bytes(other)
                      \o Slice(data, 8, Len(data)))
      ELSE NoFile

T_timestamp == 1731031994

\* outer containers that pack_rkfw did not write
CraftedRkfw ==
  LET date == from_timestamp(Timestamp(T_timestamp))
      Header(dt, boot_offset, boot_size, update_offset, update_size) ==
        rkfw_header([build |-> 0, minor |-> 1, major |-> 8], << 0, 0, 0, 2 >>, dt,
                    [code |-> 56, digits |-> << 54, 53, 51 >>],
                    [offset |-> boot_offset, size |-> boot_size],
                    [offset |-> update_offset, size |-> update_size])
  IN  { \* the signature and little else
        FileOf(RKFW_SIGNATURE \o Zeros(4)),
        \* a header cut before its offsets
        FileOf(SubSeq(Header(date, header_size, 1, header_size + 1, 4), 1, 30)),
        \* the thirteenth month
        FileOf(Header([date EXCEPT !.month = 13], header_size, 1, header_size + 1, 4)
                 \o << 9 >> \o RKAF_SIGNATURE),
        \* BOOT reaching beyond the file
        FileOf(Header(date, header_size, 9, header_size + 1, 4) \o << 9 >> \o RKAF_SIGNATURE),
        \* no BOOT at offset 0, and no RKAF magic where the header points
        FileOf(Header(date, 0, 0, header_size, 4) \o << 9, 9, 9, 9 >>),
        \* an embedded container reaching beyond the file
        FileOf(Header(date, header_size, 1, header_size + 1, 9) \o << 9 >> \o RKAF_SIGNATURE) }

\* how far beyond the width of its field a string of the inputs goes
MaxStrOver == 1

\* the lengths given to the strings put in a field of width bytes: the
\* shortest, and those around the width
StrLens(width) == {0, 1} \cup ((width - 3)..(width + MaxStrOver))

\* n letters
Letters(n) == [i \in 1..n |-> 65 + (i % 26)]

\* the strings given for a field: of letters, or a space and letters
StrInputs(width) ==
  { Letters(n) : n \in StrLens(width) }
    \cup { <<32>> \o Letters(n - 1) : n \in StrLens(width) \ {0} }

\* parameter.txt naming a device identifier
ParamWith(id) == TextOf(<< T_firmware_ver, MACHINE_ID_KEY \o <<32>> \o id >>)

\* the arguments of the pack-rkaf command (main.rs:44-56)
RkafArgs(model, manufacturer) == [model |-> model, manufacturer |-> manufacturer]

\* the model, the manufacturer or the identifier is one of the strings, the
\* directory holding one partition
StrInit ==
  LET d == InputDir(<< Entry(T_boot, T_boot_img, 8192, 16384, 2048) >>, 2, "full")
  IN  \/ \E model \in StrInputs(MAX_MODEL_LEN) :
           /\ dirs = [in |-> d, out |-> EmptyDir]
           /\ env = [phase |-> "start", packed |-> FALSE,
                     args |-> RkafArgs(model, T_manufacturer)]
      \/ \E manufacturer \in StrInputs(MAX_MANUFACTURER_LEN) :
           /\ dirs = [in |-> d, out |-> EmptyDir]
           /\ env = [phase |-> "start", packed |-> FALSE,
                     args |-> RkafArgs(T_model, manufacturer)]
      \/ \E n \in StrLens(MAX_ID_LEN) :
           /\ dirs = [in |-> [d EXCEPT !.param = ParamWith(Letters(n))], out |-> EmptyDir]
           /\ env = [phase |-> "start", packed |-> FALSE,
                     args |-> RkafArgs(T_model, T_manufacturer)]
      \/ /\ dirs = [in |-> [d EXCEPT !.param = NoText], out |-> EmptyDir]
         /\ env = [phase |-> "start", packed |-> FALSE,
                   args |-> RkafArgs(T_model, T_manufacturer)]

\* what is at the output path before pack_rkaf or pack_rkfw runs: nothing,
\* or a file "OLD!!"
OldFiles == { NoFile, FileOf(<< 79, 76, 68, 33, 33 >>) }

Idle == pk.pc = "idle" /\ un.pc = "idle"

Init ==
  /\ \/ /\ \/ /\ \E manifest \in ShortManifests, choice \in SizeChoices :
                   dirs = [in |-> InputDir(manifest, choice, "full"), out |-> EmptyDir]
              /\ imgs = [a |-> NoFile, b |-> NoFile]
           \/ /\ \E manifest \in ShortManifests \cup LongManifests, kind \in GeometryKinds :
                   dirs = [in |-> InputDir(manifest, 2, kind), out |-> EmptyDir]
              /\ \E old \in OldFiles : imgs = [a |-> old, b |-> old]
        /\ env = [phase |-> "start", packed |-> FALSE,
                  args |-> RkafArgs(T_model, T_manufacturer)]
     \/ /\ StrInit
        /\ imgs = [a |-> NoFile, b |-> NoFile]
     \/ /\ dirs = [in |-> EmptyDir, out |-> EmptyDir]
        /\ \/ \E file \in CraftedFiles \cup EdgeFiles \cup CraftedRkfw :
                imgs = [a |-> file, b |-> LengthTwin(file)]
           \/ \E file \in ChunkFiles : imgs = [a |-> file, b |-> NoFile]
        /\ env = [phase |-> "start", packed |-> FALSE,
                  args |-> RkafArgs(T_model, T_manufacturer)]
  /\ pk = PkIdle
  /\ un = UnIdle
  /\ result = NoResult
  /\ fn_in = [fn |-> "none"]
  /\ fn_out = [done |-> FALSE]

\* the caller runs pack_rkaf on the input directory
EnvPack ==
  /\ Idle
  /\ env.phase = "start"
  /\ "model" \in DOMAIN env.args
  /\ pk' = PkCall("in", "a", env.args.model, env.args.manufacturer)
  /\ env' = [phase |-> "pack", packed |-> TRUE, args |-> env.args, before |-> imgs["a"]]
  /\ UNCHANGED << dirs, imgs, un, result, fn_in, fn_out >>

\* the caller runs unpack_file on the container
EnvUnpack ==
  /\ Idle
  /\ \/ env.phase = "start"
     \/ env.phase = "pack" /\ result.kind = "Ok"
  /\ imgs["a"].exists
  /\ un' = UnCall("a", "out")
  /\ env' = [env EXCEPT !.phase = "unpack"]
  /\ UNCHANGED << dirs, imgs, pk, result, fn_in, fn_out >>

\* the caller puts the package-file and parameter.txt of the first run beside
\* the extracted files and the exported partition-metadata.txt, and runs
\* pack_rkaf there with the same model and manufacturer
EnvRepack ==
  /\ Idle
  /\ env.phase = "unpack" /\ env.packed /\ result.kind = "Ok"
  /\ "model" \in DOMAIN env.args
  /\ dirs' = [ dirs EXCEPT !["out"].pkg = dirs["in"].pkg,
                           !["out"].param = dirs["in"].param ]
  /\ pk' = PkCall("out", "b", env.args.model, env.args.manufacturer)
  /\ env' = [env EXCEPT !.phase = "repack", !.before = imgs["b"]]
  /\ UNCHANGED << imgs, un, result, fn_in, fn_out >>

\* the caller keeps what unpack_file made of a container pack_rkaf did not
\* write, and runs unpack_file on the copy with the other length field, the
\* destination being empty again
EnvUnpackTwin ==
  /\ Idle
  /\ env.phase = "unpack" /\ ~env.packed
  /\ imgs["b"].exists /\ imgs["b"] = LengthTwin(imgs["a"])
  /\ dirs' = [in |-> dirs["in"], out |-> EmptyDir, first |-> dirs["out"]]
  /\ env' = [phase |-> "twin", packed |-> FALSE, args |-> env.args, first |-> result]
  /\ un' = UnCall("b", "out")
  /\ UNCHANGED << imgs, pk, result, fn_in, fn_out >>

Next ==
  \/ EnvPack
  \/ PackRkafParse
  \/ PackRkafLayout
  \/ PackRkafCreate
  \/ PackRkafWriteFile
  \/ PackRkafChecksum
  \/ EnvUnpack
  \/ UnpackFile
  \/ UnpackRkafpHeader
  \/ UnpackRkafpPart
  \/ UnpackRkafpDone
  \/ UnpackRkfw
  \/ EnvRepack
  \/ EnvUnpackTwin

Spec == Init /\ [][Next]_vars

-----------------------------------------------------------------------------
(* pack_rkfw and the unpacking of an outer container: the caller and the   *)
(* inputs                                                                  *)

MaxBootLen == 3

T_RK3566 == <<82, 75, 51, 53, 54, 54>>            \* "RK3566"
T_version == <<56, 46, 49, 46, 48>>                  \* "8.1.0"
T_code == <<48, 120, 48, 50, 48, 48, 48, 48, 48, 48>>   \* "0x02000000"

\* BOOT blobs: up to MaxBootLen bytes, and one of 100 bytes
Boot(n) == [i \in 1..n |-> (37 * i) % 256]

Boots == { Boot(n) : n \in 0..MaxBootLen } \cup { Boot(100) }

\* contents for embedded-update.img: the RKAF magic alone and with bytes
\* after it, a file too short for the magic, and another magic
Updates ==
  { RKAF_SIGNATURE, RKAF_SIGNATURE \o << 1, 2, 3 >>,
    << 82, 75, 65 >>, << 82, 75, 70, 87, 0 >> }

\* the directory pack_rkfw reads: BOOT and embedded-update.img, or not
RkfwDir(boot, update) ==
  [ EmptyDir EXCEPT
      !.files = (IF boot.exists THEN T_BOOT :> boot.data ELSE << >>)
                  @@ (IF update.exists THEN T_embedded_update_img :> update.data
                      ELSE << >>) ]

\* arguments that differ from the usual ones in the chip, the version, the
\* timestamp or the code
RkfwArgsVaried ==
  { RkfwArgs(chip, T_version, Timestamp(T_timestamp), T_code) :
      chip \in { <<114, 107, 50, 57, 120, 120>>, <<82, 75, 51, 48>>, <<80, 88, 51, 48>>, <<82, 75, 51, 51, 54, 56>>, <<82, 75, 57, 57, 57, 57>> } }
  \cup { RkfwArgs(T_RK3566, version, Timestamp(T_timestamp), T_code) :
      version \in { <<56, 46, 49>>, <<50, 53, 53, 46, 48, 46, 54, 53, 53, 51, 53>>, <<50, 53, 54, 46, 49, 46, 48>>, <<49, 46, 120, 46, 48>>, <<49, 46, 50, 46, 54, 53, 53, 51, 54>>,
                    <<43, 49, 46, 48, 50, 46, 51>> } }
  \cup { RkfwArgs(T_RK3566, T_version, timestamp, T_code) :
      timestamp \in { Timestamp(0), Timestamp(951827696), Timestamp(2147483647),
                      Timestamp(-1),
                      \* 67560-11-08 01:00:00 and 65636-02-29 00:00:00
                      [days |-> 23956567, secs |-> 3600],
                      [days |-> 23253588, secs |-> 0],
                      \* beyond the years chrono represents, both ways
                      [days |-> 100000000, secs |-> 0],
                      [days |-> -100000000, secs |-> 86399] } }
  \cup { RkfwArgs(T_RK3566, T_version, Timestamp(T_timestamp), code) :
      code \in { <<48, 88, 70, 70, 70, 70, 70, 70, 70, 70>>, <<102, 102>>, <<48, 120>>, <<48, 120, 103, 49>>, <<48, 120, 49, 48, 48, 48, 48, 48, 48, 48, 48>> } }

\* the caller runs pack_rkfw on the input directory: the whole call
PackRkfw ==
  /\ Idle
  /\ env.phase = "start"
  /\ "chip" \in DOMAIN env.args
  /\ LET r == pack_rkfw(dirs["in"], env.args.chip, env.args.version,
                        env.args.timestamp, env.args.code)
     IN  /\ result' = [op |-> "pack_rkfw", kind |-> r.kind, msg |-> r.msg]
         /\ imgs' = IF r.written THEN [imgs EXCEPT !["a"] = FileOf(r.data)] ELSE imgs
  /\ env' = [phase |-> "pack", packed |-> TRUE, args |-> env.args, before |-> imgs["a"]]
  /\ UNCHANGED << dirs, pk, un, fn_in, fn_out >>

InitRkfw ==
  /\ \/ \E boot \in { FileOf(b) : b \in Boots } \cup { NoFile },
          update \in { FileOf(u) : u \in Updates } \cup { NoFile } :
          /\ dirs = [in |-> RkfwDir(boot, update), out |-> EmptyDir]
          /\ \E old \in OldFiles : imgs = [a |-> old, b |-> NoFile]
          /\ env = [phase |-> "start", packed |-> FALSE,
                    args |-> RkfwArgs(T_RK3566, T_version, Timestamp(T_timestamp), T_code)]
     \/ \E args \in RkfwArgsVaried :
          /\ dirs = [in |-> RkfwDir(FileOf(Boot(2)), FileOf(RKAF_SIGNATURE)), out |-> EmptyDir]
          /\ \E old \in OldFiles : imgs = [a |-> old, b |-> NoFile]
          /\ env = [phase |-> "start", packed |-> FALSE, args |-> args]
     \/ /\ dirs = [in |-> EmptyDir, out |-> EmptyDir]
        /\ imgs \in [a : CraftedRkfw, b : {NoFile}]
        /\ env = [phase |-> "start", packed |-> FALSE,
                  args |-> RkfwArgs(T_RK3566, T_version, Timestamp(T_timestamp), T_code)]
  /\ pk = PkIdle
  /\ un = UnIdle
  /\ result = NoResult
  /\ fn_in = [fn |-> "none"]
  /\ fn_out = [done |-> FALSE]

NextRkfw ==
  \/ PackRkfw
  \/ EnvUnpack
  \/ UnpackFile
  \/ UnpackRkfw

SpecRkfw == InitRkfw /\ [][NextRkfw]_vars

\* the caller gives any of the three commands (main.rs:62-73)
InitAll == Init \/ InitRkfw

NextAll == Next \/ PackRkfw

SpecAll == InitAll /\ [][NextAll]_vars

-----------------------------------------------------------------------------
(* rkcrc32 as a pure function: the inputs are drawn by InitCrc and the      *)
(* function is applied by ApplyCrc                                          *)

MaxCrcLen == 2

CrcBytes == {0, 90, 255}

CrcSeeds == { <<0, 0, 0, 0>>, <<120, 86, 52, 18>>, <<255, 255, 255, 255>> }

CrcData == UNION { [1..n -> CrcBytes] : n \in 0..MaxCrcLen }

InitCrc ==
  /\ fn_in \in [c : CrcSeeds, a : CrcData, b : CrcData]
  /\ fn_out = [done |-> FALSE]
  /\ dirs = [in |-> EmptyDir, out |-> EmptyDir]
  /\ imgs = [a |-> NoFile, b |-> NoFile]
  /\ pk = PkIdle
  /\ un = UnIdle
  /\ result = NoResult
  /\ env = [phase |-> "start", packed |-> FALSE, args |-> << >>]

ApplyCrc ==
  /\ ~fn_out.done
  /\ fn_out' = [ done   |-> TRUE,
                 whole  |-> rkcrc32(fn_in.c, fn_in.a \o fn_in.b),
                 first  |-> rkcrc32(fn_in.c, fn_in.a),
                 folded |-> rkcrc32(rkcrc32(fn_in.c, fn_in.a), fn_in.b),
                 empty  |-> rkcrc32(fn_in.c, << >>) ]
  /\ UNCHANGED << fn_in, dirs, imgs, pk, un, result, env >>

NextCrc == ApplyCrc

SpecCrc == InitCrc /\ [][NextCrc]_vars

-----------------------------------------------------------------------------
(* Claims                                                                  *)

\* pack_rkaf has returned: the first run (on in, writing a) or the second
\* (on out, writing b)
FirstPackDone == env.phase = "pack" /\ pk.pc = "idle"
RepackDone == env.phase = "repack" /\ pk.pc = "idle"
PackDone == FirstPackDone \/ RepackDone
PackOk == PackDone /\ result.kind = "Ok"

\* the directory that run read and the container it wrote
PackedDir == dirs[IF env.phase = "pack" THEN "in" ELSE "out"]
PackedData == imgs[IF env.phase = "pack" THEN "a" ELSE "b"].data
PackedHeader == UpdateHeader_from_bytes(SubSeq(PackedData, 1, UpdateHeaderSize))
PackedList == read_file_list(PackedDir.pkg.lines)

\* the package manifest both runs of pack_rkaf read
Manifest == read_file_list(dirs["in"].pkg.lines)

\* no entry of the manifest names a marker instead of a file
NoMarkerPath == \A k \in 1..Len(Manifest) : ~is_marker(Manifest[k].path)

\* unpack_file has returned from the container pack_rkaf wrote
UnpackOfPackedDone == env.phase = "unpack" /\ env.packed /\ un.pc = "idle"

\* C1 as amended: for a container pack_rkaf produced (1 to 16 entries) from a
\* manifest none of whose paths is SELF or RESERVED, unpack_file succeeds, and
\* pack_rkaf run on the extracted files with the exported
\* partition-metadata.txt, the same package-file, parameter.txt, model and
\* manufacturer succeeds and writes a container equal to the original byte for
\* byte: header, partition table, payload and checksum trailer.
C1_RoundTrip ==
  /\ (UnpackOfPackedDone /\ NoMarkerPath) => result.kind = "Ok"
  /\ (RepackDone /\ NoMarkerPath) =>
       /\ result.kind = "Ok"
       /\ imgs["b"] = imgs["a"]
       /\ Len(Manifest) \in 1..MAX_PARTS

\* a container of two partitions with two files of data has been reproduced
C1_Witness ==
  /\ RepackDone
  /\ NoMarkerPath
  /\ result.kind = "Ok"
  /\ imgs["b"] = imgs["a"]
  /\ Len(Manifest) = 2
  /\ Manifest[1].path # Manifest[2].path
  /\ \A k \in 1..2 : PackedHeader.parts[k].part_byte_count > 0

\* C1 as stated: whatever the manifest of a packed container, the second run
\* of pack_rkaf reproduces the container.
C1_Original ==
  RepackDone => (result.kind = "Ok" /\ imgs["b"] = imgs["a"])

\* entry k of a manifest is the first to name its path
FirstOfPath(list, k) == \A j \in 1..(k - 1) : list[j].path # list[k].path

\* p is the smallest multiple of 2048 that is at least c
SmallestSectorMultiple(p, c) == p % 2048 = 0 /\ p >= c /\ p - c < 2048

\* where the space of the file first named by entry k ends in container h of
\* data length len: at the offset of the next entry that first names a
\* file, or at the end of the data
SpaceEnd(list, h, len, k) ==
  LET later == {j \in (k + 1)..Len(list) : FirstOfPath(list, j)}
  IN  IF later = {} THEN len
      ELSE h.parts[CHOOSE j \in later : \A i \in later : j <= i].part_offset

\* C2 as amended: in every container written by pack_rkaf the data region
\* starts at a multiple of 2048, every entry's part_offset is a multiple of
\* 2048, and the space a file takes in the container is the smallest multiple
\* of 2048 that is at least its byte length; the padded_size field of an
\* entry is the value of the geometry file.
C2_Alignment ==
  PackOk =>
    LET list == PackedList
        h    == PackedHeader
        geo  == parse_partition_metadata(PackedDir).map
    IN  \A k \in 1..Len(list) :
          /\ h.parts[k].part_offset % 2048 = 0
          /\ h.parts[k].part_offset >= UpdateHeaderSize
          /\ (k = 1 => h.parts[k].part_offset % 2048 = 0
                       /\ h.parts[k].part_offset - UpdateHeaderSize < 2048)
          /\ FirstOfPath(list, k) =>
               SmallestSectorMultiple(
                 SpaceEnd(list, h, Len(PackedData) - 4, k) - h.parts[k].part_offset,
                 h.parts[k].part_byte_count)
          /\ h.parts[k].padded_size = geo[list[k].name].padded_size

\* a container of two files was written, one of them not a whole number of
\* sectors long, whose padded_size field is not its rounded length
C2_Witness ==
  /\ PackOk
  /\ \E k \in 1..Len(PackedList) :
       /\ PackedHeader.parts[k].part_byte_count % 2048 # 0
       /\ PackedHeader.parts[k].padded_size # padded(PackedHeader.parts[k].part_byte_count)
  /\ \E j, k \in 1..Len(PackedList) :
       PackedHeader.parts[j].part_offset # PackedHeader.parts[k].part_offset

\* C2 as stated: every offset is a multiple of 2048 and the padded size of
\* every entry is the smallest multiple of 2048 at least its byte length.
C2_Original ==
  PackOk =>
    \A k \in 1..Len(PackedList) :
      /\ PackedHeader.parts[k].part_offset % 2048 = 0
      /\ SmallestSectorMultiple(PackedHeader.parts[k].padded_size,
                                PackedHeader.parts[k].part_byte_count)

\* the sum of the sector-rounded sizes of the first n files of a list of
\* loaded files, rounded as the claim says: up to the next multiple of 2048
RECURSIVE RoundedSum(_, _)
RoundedSum(files, n) ==
  IF n = 0 THEN 0
  ELSE RoundedSum(files, n - 1) + ((Len(files[n].data) + 2047) \div 2048) * 2048

\* C3: entries that name the same path get the part_offset and the byte count
\* of the first of them; a path is read and laid out once, and the cursor
\* stands at the header sector plus the rounded sizes of the distinct files
\* (it has not moved for a repeated path); the written container holds the
\* header sector, one rounded region per distinct file, and the checksum.
C3_Aliasing ==
  /\ pk.pc \in {"layout", "write"} =>
       /\ \A j, k \in 1..pk.i :
            pk.file_list[j].path = pk.file_list[k].path =>
              /\ pk.header.parts[j].part_offset = pk.header.parts[k].part_offset
              /\ pk.header.parts[j].part_byte_count = pk.header.parts[k].part_byte_count
       /\ \A j, k \in 1..Len(pk.file_data_list) :
            pk.file_data_list[j].path = pk.file_data_list[k].path => j = k
       /\ { pk.file_data_list[j].path : j \in 1..Len(pk.file_data_list) }
            = { pk.file_list[k].path : k \in 1..pk.i }
       /\ pk.current_offset
            = 2048 + RoundedSum(pk.file_data_list, Len(pk.file_data_list))
  /\ PackOk =>
       LET list  == PackedList
           h     == PackedHeader
       IN  /\ \A j, k \in 1..Len(list) :
                list[j].path = list[k].path =>
                  /\ h.parts[j].part_offset = h.parts[k].part_offset
                  /\ h.parts[j].part_byte_count = h.parts[k].part_byte_count
           /\ Len(PackedData) - 4 - 2048
                = LET order == Ascending({k \in 1..Len(list) : FirstOfPath(list, k)})
                  IN  RoundedSum([n \in 1..Len(order) |->
                                    [data |-> PackedDir.files[list[order[n]].path]]],
                                 Len(order))

\* two entries naming one path were laid out and written, with another file
C3_Witness ==
  /\ PackOk
  /\ \E j, k \in 1..Len(PackedList) :
       /\ j < k
       /\ PackedList[j].path = PackedList[k].path
       /\ PackedList[j].name # PackedList[k].name
       /\ Len(PackedDir.files[PackedList[j].path]) > 0

\* the header unpack_file reads from the container
UnpackedHeader == UpdateHeader_from_bytes(SubSeq(imgs["a"].data, 1, UpdateHeaderSize))

\* unpack_file has returned Ok(())
UnpackOk == env.phase = "unpack" /\ un.pc = "idle" /\ result.kind = "Ok"

\* the full path of entry k is SELF or RESERVED
C4_Marker(h, k) ==
  /\ from_bytes_until_nul(h.parts[k].full_path).ok
  /\ from_bytes_until_nul(h.parts[k].full_path).s \in {S_SELF, S_RESERVED}

\* entry k yields output: its full path is terminated and is not a marker
C4_Yields(h, k) ==
  from_bytes_until_nul(h.parts[k].full_path).ok /\ ~C4_Marker(h, k)

C4_Path(h, k) == from_bytes_until_nul(h.parts[k].full_path).s

\* the line of partition-metadata.txt entry k yields
C4_Line(h, k) ==
  LET name == from_bytes_until_nul(h.parts[k].name)
  IN  metadata_text(IF name.ok THEN name.s ELSE << >>, C4_Path(h, k), h.parts[k])

\* the first n entries have yielded their lines, in order, and their files,
\* and nothing else
C4_Output(h, n) ==
  LET order == Ascending({k \in 1..n : C4_Yields(h, k)})
  IN  /\ dirs["out"].meta.lines = [j \in 1..Len(order) |-> C4_Line(h, order[j])]
      /\ DOMAIN dirs["out"].files = { C4_Path(h, order[j]) : j \in 1..Len(order) }

\* the iteration on one entry: a 17th entry panics; a marker and an
\* unterminated path leave the output alone; any other entry gets its line,
\* then its file, unless the file cannot be created
C4_Step ==
  (un.pc = "parts" /\ un.i < un.header.num_parts) =>
    LET k == un.i + 1
        h == un.header
    IN  IF k > MAX_PARTS
          THEN result'.kind = "Panic" /\ dirs' = dirs
        ELSE IF ~C4_Yields(h, k)
          THEN dirs' = dirs /\ un'.pc = "parts" /\ un'.i = k
        ELSE /\ dirs'["out"].meta.lines = Append(dirs["out"].meta.lines, C4_Line(h, k))
             /\ \/ /\ C4_Path(h, k) \in DOMAIN dirs'["out"].files
                   /\ \/ un'.pc = "parts" /\ un'.i = k
                      \/ un'.pc = "idle" /\ result'.kind = "Err"
                \/ /\ un'.pc = "idle" /\ result'.kind = "Err"
                   /\ dirs'["out"].files = dirs["out"].files

TwinDone == env.phase = "twin" /\ un.pc = "idle"

\* the file's size minus 4 is not the length its header declares
C11_Mismatch(data) ==
  Len(data) - 4 # UpdateHeader_from_bytes(SubSeq(data, 1, UpdateHeaderSize)).length

\* reading the header of a file that holds a whole one with the magic: the
\* loop over the partitions is entered whether the length matches or not
C11_Step ==
  (/\ un.pc = "rkafp"
   /\ Len(imgs[un.file_path].data) >= UpdateHeaderSize
   /\ Slice(imgs[un.file_path].data, 0, 4) = RKAF_SIGNATURE) =>
    /\ un'.pc = "parts"
    /\ un'.warned = C11_Mismatch(imgs[un.file_path].data)
    /\ result' = result

\* C11: a length field that differs from the file size minus 4 is no error:
\* unpack_file goes on to the partitions, and of two containers that differ
\* in nothing but the length field, one matching its file and one not,
\* it returns the same value and writes the same partition-metadata.txt and
\* the same files.
C11_LengthMismatch ==
  /\ [](TwinDone =>
          /\ C11_Mismatch(imgs["a"].data) # C11_Mismatch(imgs["b"].data)
          /\ result.kind = env.first.kind /\ result.msg = env.first.msg
          /\ dirs["out"] = dirs["first"])
  /\ [][C11_Step]_vars

\* a container whose length field does not match its file was unpacked
\* after the one whose field matches: two lines, and a file of data
C11_Witness ==
  /\ TwinDone
  /\ C11_Mismatch(imgs["b"].data)
  /\ result.kind = "Ok"
  /\ Len(dirs["out"].meta.lines) >= 2
  /\ \E path \in DOMAIN dirs["out"].files : Len(dirs["out"].files[path]) > 0

\* the next entry of the table is handed to extract_file, which creates its
\* file
C12_Case ==
  /\ un.pc = "parts"
  /\ un.i < un.header.num_parts /\ un.i < MAX_PARTS
  /\ C4_Yields(un.header, un.i + 1)
  /\ CanCreate(dirs["out"], C4_Path(un.header, un.i + 1))

\* the n bytes of the source from offset o
C12_Bytes(src, o, n) == IF n = 0 THEN << >> ELSE SubSeq(src, o + 1, o + n)

\* the entry's file holds exactly its bytes and the loop goes on
C12_Exact ==
  LET part == un.header.parts[un.i + 1]
  IN  /\ dirs'["out"].files[C4_Path(un.header, un.i + 1)]
            = C12_Bytes(imgs[un.file_path].data, part.part_offset, part.part_byte_count)
      /\ un'.pc = "parts" /\ un'.i = un.i + 1
      /\ result' = result

\* unpack_file returns an error, the entry's file holding the whole buffers
\* that could be read
C12_Fails ==
  LET part  == un.header.parts[un.i + 1]
      src   == imgs[un.file_path].data
      o     == part.part_offset
      avail == IF Len(src) > o THEN Len(src) - o ELSE 0
  IN  /\ result'.kind = "Err"
      /\ un'.pc = "idle"
      /\ dirs'["out"].files[C4_Path(un.header, un.i + 1)]
            = C12_Bytes(src, o, CHUNK * (avail \div CHUNK))

\* once unpack_file has returned, no entry is processed
C12_Stopped ==
  (un.pc = "idle" /\ un'.pc = "idle") =>
    /\ dirs'["out"].files = dirs["out"].files
    /\ dirs'["out"].meta = dirs["out"].meta

C12_Step ==
  /\ C12_Case =>
       LET part == un.header.parts[un.i + 1]
       IN  IF part.part_byte_count = 0
              \/ Len(imgs[un.file_path].data) >= part.part_offset + part.part_byte_count
             THEN C12_Exact
           ELSE C12_Fails
  /\ C12_Stopped

\* C12 as amended: for every partition entry handed to extract_file whose
\* file can be created, with container offset o and byte length n, the copy
\* goes in buffers of at most 16 KiB.  If n = 0 the extracted file is empty,
\* wherever o lies, even beyond the end of the source.  If n > 0 and the
\* source holds at least o + n bytes, the file equals exactly the n source
\* bytes starting at o.  If n > 0 and the source ends before o + n,
\* unpack_file returns an error, the file holding the whole buffers read
\* before the short one, and no later entry is processed.
C12_ExactExtraction == [][C12_Step]_vars

\* a partition a byte longer than the buffer has been extracted whole
C12_Witness ==
  /\ un.pc = "parts" /\ un.i = 1
  /\ un.header.parts[1].part_byte_count = CHUNK + 1
  /\ dirs["out"].files[C4_Path(un.header, 1)]
       = SubSeq(imgs["a"].data, un.header.parts[1].part_offset + 1,
                un.header.parts[1].part_offset + CHUNK + 1)

C12_OriginalStep ==
  /\ C12_Case =>
       LET part == un.header.parts[un.i + 1]
       IN  IF Len(imgs[un.file_path].data) >= part.part_offset + part.part_byte_count
             THEN C12_Exact
           ELSE result'.kind = "Err" /\ un'.pc = "idle"
  /\ C12_Stopped

\* C12 as stated: the extracted file is exact when the source holds o + n
\* bytes, and unpack_file returns an error whenever the source ends before
\* o + n.
C12_Original == [][C12_OriginalStep]_vars

\* the entries of a manifest that are the first to name their path, in order
C13_Firsts(list) == Ascending({k \in 1..Len(list) : FirstOfPath(list, k)})

\* the sector-rounded end of the region of entry k
C13_End(h, k) ==
  h.parts[k].part_offset + ((h.parts[k].part_byte_count + 2047) \div 2048) * 2048

\* C13: in every container written by pack_rkaf the regions of the distinct
\* files lie in the order of their first occurrence in the manifest, the
\* first beginning where the header sector ends, each next where the one
\* before it ends, the last ending where the checksum begins; for every
\* entry the bytes in [part_offset, part_offset + part_byte_count) are the
\* content of its source file and the bytes from there to the sector-rounded
\* end are zero.
C13_PayloadPlacement ==
  PackOk =>
    LET list   == PackedList
        h      == PackedHeader
        data   == PackedData
        firsts == C13_Firsts(list)
    IN  /\ \A k \in 1..Len(list) :
             /\ Slice(data, h.parts[k].part_offset,
                            h.parts[k].part_offset + h.parts[k].part_byte_count)
                  = PackedDir.files[list[k].path]
             /\ \A at \in (h.parts[k].part_offset + h.parts[k].part_byte_count + 1)
                            ..C13_End(h, k) : data[at] = 0
        /\ h.parts[firsts[1]].part_offset = sector_size
        /\ \A n \in 1..(Len(firsts) - 1) :
             h.parts[firsts[n + 1]].part_offset = C13_End(h, firsts[n])
        /\ C13_End(h, firsts[Len(firsts)]) = Len(data) - 4

\* two files were written, the first with zeros after it up to the sector
C13_Witness ==
  /\ PackOk
  /\ Len(PackedList) = 2
  /\ PackedList[1].path # PackedList[2].path
  /\ PackedHeader.parts[1].part_byte_count % 2048 # 0
  /\ PackedHeader.parts[2].part_byte_count > 0
  /\ PackedHeader.parts[2].part_offset = C13_End(PackedHeader, 1)

\* pack_rkaf writes its output: the length field is the cursor the layout
\* ended at, every file written leaves the output no longer than that, and
\* the checksum is appended to an output of exactly that length
C14_Step ==
  /\ (pk.pc = "layout" /\ pk'.pc = "write") =>
       /\ pk'.header.length = pk.current_offset
       /\ pk'.current_offset = pk.current_offset
       /\ UpdateHeader_from_bytes(
            SubSeq(imgs'[pk.output_file].data, 1, UpdateHeaderSize)).length
            = pk.current_offset
  /\ (pk.pc = "write" /\ pk'.pc = "write") =>
       /\ pk'.header.length = pk.header.length
       /\ Len(imgs'[pk.output_file].data) <= pk.header.length
  /\ (pk.pc = "write" /\ pk'.pc = "idle") =>
       /\ Len(imgs[pk.output_file].data) = pk.current_offset
       /\ Len(imgs'[pk.output_file].data) = pk.current_offset + 4

\* C14: in every container written by pack_rkaf the header's length field is
\* the final write cursor, which is the number of bytes written before the
\* checksum, the file size minus 4; unpack_file on such a container does
\* not take the length-mismatch branch.
C14_DeclaredLength ==
  /\ [](/\ PackOk => PackedHeader.length = Len(PackedData) - 4
        /\ (env.packed /\ un.pc = "parts") => ~un.warned)
  /\ [][C14_Step]_vars

\* unpack_file has read the header of a container of two files that
\* pack_rkaf wrote
C14_Witness ==
  /\ env.packed
  /\ un.pc = "parts"
  /\ ~un.warned
  /\ un.header.num_parts = 2
  /\ un.header.length = Len(imgs["a"].data) - 4
  /\ un.header.length > 2 * sector_size

\* the step of the claim, bit by bit: table[top byte XOR input byte] XOR
\* (accumulator << 8, truncated to 32 bits)
C5_step(c, x) ==
  LET t       == RKCRC32_TABLE[XorBits(c[1], x) + 1]
      shifted == << c[2], c[3], c[4], 0 >>
  IN  [k \in 1..4 |-> XorBits(t[k], shifted[k])]

RECURSIVE C5_steps(_, _, _)
C5_steps(c, data, k) ==
  IF k = 0 THEN c ELSE C5_step(C5_steps(c, data, k - 1), data[k])

\* C5: rkcrc32(c, a ++ b) = rkcrc32(rkcrc32(c, a), b), rkcrc32(c, empty) = c,
\* and every step is table[(top byte of the accumulator) XOR byte] XOR
\* (accumulator << 8 truncated to 32 bits).
C5_ChecksumComposition ==
  fn_out.done =>
    /\ fn_out.whole = fn_out.folded
    /\ fn_out.empty = fn_in.c
    /\ fn_out.first = C5_steps(fn_in.c, fn_in.a, Len(fn_in.a))
    /\ fn_out.whole = C5_steps(fn_out.first, fn_in.b, Len(fn_in.b))

\* a non-empty prefix and a non-empty suffix have been checksummed from a
\* non-zero accumulator
C5_Witness ==
  /\ fn_out.done
  /\ Len(fn_in.a) > 0 /\ Len(fn_in.b) > 0
  /\ fn_in.c # <<0, 0, 0, 0>>
  /\ fn_out.whole # fn_in.c

\* the bytes of a written container before its last four, and those four
C6_Body == SubSeq(PackedData, 1, Len(PackedData) - 4)
C6_Trailer == SubSeq(PackedData, Len(PackedData) - 3, Len(PackedData))

\* the steps of pack_rkaf on its output file: it is created holding the
\* header sector, grows by one file and its padding at a time while files
\* remain, and only when none remains, at the length the header declares,
\* gets four more bytes as pack_rkaf returns; no step of an idle pack_rkaf
\* touches a container
C6_Step ==
  /\ pk.pc = "idle" => imgs' = imgs
  /\ pk.pc = "parse" => imgs' = imgs
  /\ (pk.pc = "layout" /\ imgs' # imgs) =>
       /\ pk.i = Len(pk.file_list)
       /\ pk'.pc = "write"
       /\ Len(imgs'[pk.output_file].data) = sector_size
  /\ pk.pc = "write" =>
       LET old == imgs[pk.output_file].data
           new == imgs'[pk.output_file].data
       IN  /\ SubSeq(new, 1, Len(old)) = old
           /\ IF pk.w < Len(pk.file_data_list)
                THEN /\ pk'.pc = "write"
                     /\ Len(new) - Len(old)
                          = pk.file_data_map[pk.file_data_list[pk.w + 1].path].padded
                     /\ Len(new) <= pk.header.length
                ELSE /\ pk'.pc = "idle"
                     /\ result'.kind = "Ok"
                     /\ Len(old) = pk.header.length
                     /\ Len(new) = Len(old) + 4

\* C6: the checksum is appended after the header sector and every file with
\* its padding; the last 4 bytes of a written container are the little-endian
\* rkcrc32(0, B) of all the bytes B before them, B has the length the header
\* declares, and nothing is written after the trailer.
C6_ChecksumTrailer ==
  /\ [](PackOk =>
          /\ Len(PackedData) = PackedHeader.length + 4
          /\ C6_Trailer = word_to_le_bytes(rkcrc32(<<0, 0, 0, 0>>, C6_Body)))
  /\ [][C6_Step]_vars

\* a container holding file data beyond its header sector has been written
C6_Witness ==
  /\ PackOk
  /\ Len(PackedData) > sector_size + 4
  /\ \E k \in (sector_size + 1)..(Len(PackedData) - 4) : PackedData[k] # 0
  /\ C6_Trailer # <<0, 0, 0, 0>>

\* the string with a single leading space added if it had none
C7_Prefixed(s) == IF s # << >> /\ s[1] = 32 THEN s ELSE <<32>> \o s

\* what a field of width bytes keeps of a text: its first width - 1 bytes
C7_Kept(text, width) == SubSeq(text, 1, Min(Len(text), width - 1))

\* the device identifier pack_rkaf takes from parameter.txt
C7_Id == read_machine_id(PackedDir.param)

\* the three string fields of a written header: the string given, the text
\* the field is to hold, the field's width and its bytes
C7_Fields ==
  << [ s |-> env.args.model, text |-> C7_Prefixed(env.args.model),
       width |-> MAX_MODEL_LEN, buf |-> PackedHeader.model ],
     [ s |-> env.args.manufacturer, text |-> C7_Prefixed(env.args.manufacturer),
       width |-> MAX_MANUFACTURER_LEN, buf |-> PackedHeader.manufacturer ],
     [ s |-> C7_Id, text |-> IF C7_Id = << >> THEN << >> ELSE <<32>> \o C7_Id,
       width |-> MAX_ID_LEN, buf |-> PackedHeader.id ] >>

\* pack_rkaf is given a package-file of 1 to 16 entries, every file it names
\* and a geometry entry for every name
C7_InputValid ==
  LET geo == parse_partition_metadata(PackedDir)
  IN  /\ PackedDir.pkg.exists
      /\ Len(PackedList) \in 1..MAX_PARTS
      /\ geo.ok
      /\ \A k \in 1..Len(PackedList) :
           /\ PackedList[k].name \in DOMAIN geo.map
           /\ PackedList[k].path \in DOMAIN PackedDir.files

\* C7 as amended: pack_rkaf rejects no model, manufacturer or device
\* identifier for its length.  A field holds the first width - 1 bytes of the
\* string with a single leading space added if it had none (always added to a
\* non-empty identifier; an empty identifier leaves its field empty), and
\* zeros after them.  So decoding at the first zero byte returns that text
\* whole when it has at most width - 1 bytes: a string of width - 2
\* characters with no leading space is kept whole, and one of width - 1
\* characters is accepted and loses its last character.  unpack_file decodes
\* the model and the manufacturer so.
C7_StringFields ==
  /\ (PackDone /\ C7_InputValid) => result.kind = "Ok"
  /\ PackOk =>
       \A f \in 1..3 :
         LET field == C7_Fields[f]
             kept  == C7_Kept(field.text, field.width)
         IN  /\ from_bytes_until_nul(field.buf).ok
             /\ from_bytes_until_nul(field.buf).s = kept
             /\ field.buf = kept \o Zeros(field.width - Len(kept))
             /\ Len(field.text) <= field.width - 1 => kept = field.text
             /\ Len(field.text) = field.width =>
                  kept = SubSeq(field.text, 1, Len(field.text) - 1)
  /\ (un.pc = "parts" /\ env.packed) =>
       /\ un.model = C7_Kept(C7_Prefixed(env.args.model), MAX_MODEL_LEN)
       /\ un.manufacturer
            = C7_Kept(C7_Prefixed(env.args.manufacturer), MAX_MANUFACTURER_LEN)

\* a model of width - 1 letters has been packed and has lost its last letter
C7_Witness ==
  /\ FirstPackDone
  /\ result.kind = "Ok"
  /\ Len(env.args.model) = MAX_MODEL_LEN - 1
  /\ env.args.model[1] # 32
  /\ from_bytes_until_nul(PackedHeader.model).s
       = <<32>> \o SubSeq(env.args.model, 1, MAX_MODEL_LEN - 2)

\* C7 as stated, for the strings that have no leading space: one shorter than
\* the width, once encoded, decodes to itself after a space; one of
\* width - 2 characters is encoded; one of width - 1 characters is rejected
\* with an error.
C7_Original ==
  (FirstPackDone /\ C7_InputValid) =>
    \A f \in 1..3 :
      LET field == C7_Fields[f]
      IN  (field.s # << >> /\ field.s[1] # 32) =>
            /\ Len(field.s) = field.width - 1 => result.kind = "Err"
            /\ Len(field.s) = field.width - 2 => result.kind = "Ok"
            /\ (Len(field.s) < field.width /\ result.kind = "Ok") =>
                 from_bytes_until_nul(field.buf).s = <<32>> \o field.s

\* pack_rkfw has just returned
C8_PackDone == env.phase = "pack" /\ result.op = "pack_rkfw"

\* the BOOT blob and the embedded container pack_rkfw was given
C8_Boot == dirs["in"].files[T_BOOT]
C8_Update == dirs["in"].files[T_embedded_update_img]

\* pack_rkfw was given both files, the embedded one starting with the RKAF
\* magic, and a chip, a version, a timestamp and a code it accepts
C8_InputValid ==
  /\ T_BOOT \in DOMAIN dirs["in"].files
  /\ T_embedded_update_img \in DOMAIN dirs["in"].files
  /\ starts_with(C8_Update, << 82, 75, 65, 70 >>)
  /\ chip_name_to_code(env.args.chip).ok
  /\ LET v == split(env.args.version, {46})
     IN  /\ Len(v) = 3
         /\ parse_uint(v[1], 255).ok /\ parse_uint(v[2], 255).ok /\ parse_uint(v[3], 65535).ok
  /\ hex_u32(trim_start_matches(trim_start_matches(env.args.code, <<48, 120>>),
                                <<48, 88>>)).ok
  /\ from_timestamp(env.args.timestamp).ok

\* the bytes two hexadecimal digits a byte spell
C8_FromHex(text) ==
  [k \in 1..(Len(text) \div 2) |->
     16 * HexDigitValue(text[2 * k - 1]) + HexDigitValue(text[2 * k])]

\* C8: for every BOOT blob and every embedded-update.img that starts with
\* the RKAF magic, the file pack_rkfw writes is a header of 0x66 bytes, BOOT,
\* the embedded container and the digest text; the header locates BOOT at
\* (0x66, its length) and the embedded container at (0x66 + the length of
\* BOOT, its length), so that unpack_file gets both back; the trailing field
\* is 32 lowercase hexadecimal characters, the MD5 digest of all the bytes
\* before it.
C8_OuterLayout ==
  /\ (C8_PackDone /\ C8_InputValid) => result.kind = "Ok"
  /\ (C8_PackDone /\ result.kind = "Ok") =>
       LET f    == imgs["a"].data
           body == Len(f) - 32
           text == SubSeq(f, body + 1, Len(f))
       IN  /\ C8_InputValid
           /\ Len(f) = 102 + Len(C8_Boot) + Len(C8_Update) + 32
           /\ SubSeq(f, 1, 4) = << 82, 75, 70, 87 >>
           /\ SubSeq(f, 103, 102 + Len(C8_Boot)) = C8_Boot
           /\ SubSeq(f, 103 + Len(C8_Boot), body) = C8_Update
           /\ get_u32_le(f, 25) = 102
           /\ get_u32_le(f, 29) = Len(C8_Boot)
           /\ get_u32_le(f, 33) = 102 + Len(C8_Boot)
           /\ get_u32_le(f, 37) = Len(C8_Update)
           /\ \A k \in 1..32 : text[k] \in (48..57) \cup (97..102)
           /\ C8_FromHex(text) = md5_compute(SubSeq(f, 1, body))
  /\ (UnpackOk /\ env.packed /\ T_BOOT \in DOMAIN dirs["in"].files) =>
       /\ dirs["out"].files[T_BOOT] = C8_Boot
       /\ dirs["out"].files[T_embedded_update_img] = C8_Update

\* a BOOT blob of 100 bytes and an embedded container with bytes after its
\* magic have been packed
C8_Witness ==
  /\ C8_PackDone
  /\ result.kind = "Ok"
  /\ Len(C8_Boot) = 100
  /\ Len(C8_Update) > 4
  /\ Len(imgs["a"].data) = 102 + 100 + Len(C8_Update) + 32

\* pack_rkaf has returned, and the file at the path it was to write
C15_RkafDone == PackDone /\ result.op = "pack_rkaf"
C15_RkafOutput == imgs[IF env.phase = "pack" THEN "a" ELSE "b"]

\* C15: whenever pack_rkaf or pack_rkfw returns an error, what was at the
\* output path when it was called is still there, unchanged: a file is
\* neither created, truncated nor written, and an absent file stays absent.
\* pack_rkaf touches the output only after the manifest, the geometry and
\* every partition file have been read.
C15_ValidationFirst ==
  /\ (C15_RkafDone /\ result.kind = "Err") => C15_RkafOutput = env.before
  /\ pk.pc \in {"parse", "layout"} => imgs[pk.output_file] = env.before
  /\ (C8_PackDone /\ result.kind = "Err") => imgs["a"] = env.before

\* pack_rkaf has read a partition file and has then found a name without
\* geometry, a file being at the output path
C15_Witness ==
  /\ C15_RkafDone
  /\ result.kind = "Err"
  /\ result.msg = "Missing partition metadata for name"
  /\ Len(PackedList) = 2
  /\ env.before.exists
  /\ C15_RkafOutput = env.before

\* unpack_file has returned from the file pack_rkfw wrote
C16_Unpacked ==
  env.phase = "unpack" /\ env.packed /\ un.pc = "idle" /\ "chip" \in DOMAIN env.args

\* C16: unpack_file on the file pack_rkfw wrote succeeds and writes BOOT and
\* embedded-update.img, equal byte for byte to the two inputs, and nothing
\* else: no Image directory, no partition-metadata.txt, no partition of the
\* embedded container.
C16_OuterRoundTrip ==
  C16_Unpacked =>
    /\ result.kind = "Ok"
    /\ dirs["out"].files = (T_BOOT :> C8_Boot) @@ (T_embedded_update_img :> C8_Update)
    /\ ~dirs["out"].meta.exists
    /\ dirs["out"].subdirs = {}

\* pack_rkaf has returned and the geometry it was given is absent, empty, or
\* lacks a name of the package manifest
C9_GeometryMissing ==
  LET geo == parse_partition_metadata(PackedDir)
  IN  /\ PackDone
      /\ PackedDir.pkg.exists
      /\ \/ ~PackedDir.meta.exists
         \/ geo.ok /\ DOMAIN geo.map = {}
         \/ geo.ok /\ \E k \in 1..Len(PackedList) : PackedList[k].name \notin DOMAIN geo.map

\* C9: pack_rkaf fails with an error when partition-metadata.txt is absent or
\* yields no entries, and when a name of the package manifest has no geometry
\* entry, whatever entries the other names have.
C9_MissingGeometry == C9_GeometryMissing => result.kind = "Err"

\* C10: unpack_file and pack_rkaf succeed or return an error value on every
\* input; neither panics.
C10_ErrorsAreValues == result.kind \in {"none", "Ok", "Err"}

====
